---- MODULE Spec2Model ----
(***************************************************************************)
(* Irrigation controller (papapew/GeniusIrrigation).                       *)
(*                                                                         *)
(* Engine: the V3.0 sketch (src/unnamed/part_002): updateIrrigation with   *)
(* its four mode strategies, checkSafetyLimits, startWatering,             *)
(* stopWatering, isInScheduledWindow and readSensors.  The control         *)
(* surface that toggles a zone is POST /api/control of the V3.1 sketch.    *)
(*                                                                         *)
(* Persistence: loadConfig, saveConfig, saveZoneConfig, setDefaults and    *)
(* calcChecksum of the V3.1 sketch, with the two web handlers that write   *)
(* the configuration.  Under SpecStore sysConfig and zones hold the        *)
(* records of that sketch.                                                 *)
(*                                                                         *)
(* Time is counted in units of UnitMs milliseconds; the clock of TimeLib   *)
(* runs on millis() from the value given by the last setTime().            *)
(***************************************************************************)
EXTENDS Integers, Sequences, FiniteSets, TLC

VARIABLES
  sysConfig,     \* SystemConfig sysConfig            (part_002:189-221)
  zones,         \* ZoneConfig zones[16]              (part_002:172-187)
  soilMoisture,  \* long soilMoisture[16]             (part_002:228)
  temp,          \* float temp, degrees Fahrenheit    (part_002:229)
  relaystatus,   \* bool relaystatus[16]              (part_002:231)
  pins,          \* level of digital pin zone+2: "HIGH", "LOW", or "INPUT"
  rawRead,       \* per zone: the last analogRead() of readSensors, -1 if none
  millis,        \* millis(), in units of UnitMs
  timeSet,       \* timeStatus() == timeSet
  timeBase,      \* now() - millis(), in units of UnitMs
  divZero,       \* zones whose last sensor read divided by zero
  ev,            \* per zone: the actuator calls of the last handler
  eeprom,        \* the EEPROM: the system record and the 16 zone records
  ticks,         \* the number of passes of loop() so far, modulo 2
  pc,            \* where the handler that loop() is running stands
  currentMenu    \* MenuState currentMenu                (part_002:152)

engineVars == <<sysConfig, zones, soilMoisture, temp, relaystatus, pins, rawRead,
                millis, timeSet, timeBase, divZero, ev>>

vars == <<engineVars, eeprom, ticks, pc, currentMenu>>

----------------------------------------------------------------------------
(* Bounds *)

MaxZones == 2          \* zone slots modelled (the sketch has 16)
MaxMillis == 4         \* horizon of millis(), in units of UnitMs
DayMinutes == 3        \* minutes in a modelled calendar day
MonthDays == 2         \* days in a modelled month

MaxDaily == 1          \* maxDailyWatering of the modelled configurations, minutes
MaxRun == 1            \* maxDuration of the modelled configurations, minutes
UnitsPerMinute == 2    \* units of millis in a minute

(* Program and library constants *)

MsPerMinute == 60000
UnitMs == MsPerMinute \div UnitsPerMinute   \* one unit of millis in the model

MODE_MOISTURE_ONLY == 0
MODE_TIME_ONLY == 1
MODE_HYBRID == 2
MODE_MANUAL == 3

ZoneIds == 0 .. (MaxZones - 1)
Modes == {MODE_MOISTURE_ONLY, MODE_TIME_ONLY, MODE_HYBRID, MODE_MANUAL}

----------------------------------------------------------------------------
(* TimeLib, as the engine reads it *)

Now == timeBase + millis

MinuteCount(t) == (t * UnitMs) \div MsPerMinute

DayIndex(t) == MinuteCount(t) \div DayMinutes

\* day(t): the day of the month, from 1
DayOfMonth(t) == (DayIndex(t) % MonthDays) + 1

\* weekday(): Sunday is 1; day 0 of the epoch is a Thursday
Weekday(t) == ((DayIndex(t) + 4) % 7) + 1

\* hour() * 60 + minute()
MinuteOfDay(t) == MinuteCount(t) % DayMinutes

----------------------------------------------------------------------------
(* Actuator calls.  A zone's part of the machine is carried through one    *)
(* handler as a record: on (relaystatus), zc (zones[zone]), pin, ev.       *)

\* digitalWrite(pin, value)
Level(value) == IF value THEN "HIGH" ELSE "LOW"

ZoneSt(z) == [on |-> relaystatus[z], zc |-> zones[z], pin |-> pins[z], ev |-> <<>>]

Call(op, by, st) == [op |-> op, by |-> by, was |-> st.on]

\* (millis() - zones[zone].wateringStart) / 60000
RunTime(zc) == ((millis - zc.wateringStart) * UnitMs) \div MsPerMinute

startWatering(st, by) ==
  [st EXCEPT !.pin = Level(sysConfig.relayOn),
             !.on = TRUE,
             !.zc.wateringStart = millis,
             !.ev = Append(@, Call("start", by, st))]

\* variant: the time of the stop is not recorded
stopWatering_KeepsLastWatered(st, by) ==
  LET upd == IF st.zc.wateringStart > 0
               THEN [st.zc EXCEPT !.totalWateringToday = @ + RunTime(st.zc),
                                  !.wateringStart = 0]
               ELSE st.zc
  IN [st EXCEPT !.pin = Level(~sysConfig.relayOn), !.on = FALSE, !.zc = upd,
                !.ev = Append(@, Call("stop", by, st))]

\* variant: the statistics are updated on every call
stopWatering_Unguarded(st, by) ==
  [st EXCEPT !.pin = Level(~sysConfig.relayOn),
             !.on = FALSE,
             !.zc = [st.zc EXCEPT !.totalWateringToday = @ + RunTime(st.zc),
                                  !.lastWatered = Now,
                                  !.wateringStart = 0],
             !.ev = Append(@, Call("stop", by, st))]

stopWatering(st, by) ==
  LET upd == IF st.zc.wateringStart > 0
               THEN [st.zc EXCEPT !.totalWateringToday = @ + RunTime(st.zc),
                                  !.lastWatered = Now,
                                  !.wateringStart = 0]
               ELSE st.zc
  IN [st EXCEPT !.pin = Level(~sysConfig.relayOn),
                !.on = FALSE,
                !.zc = upd,
                !.ev = Append(@, Call("stop", by, st))]

----------------------------------------------------------------------------
(* Mode strategies and safety limits *)

IsHot == temp >= sysConfig.tempSwitch

\* variant: the low threshold adjusted by the high threshold's offset
effectiveLow_AdjHi(zc) == zc.moistureLow + (IF IsHot THEN sysConfig.tempAdjHi ELSE 0)

effectiveLow(zc) == zc.moistureLow + (IF IsHot THEN sysConfig.tempAdjLow ELSE 0)

effectiveHigh(zc) == zc.moistureHigh + (IF IsHot THEN sysConfig.tempAdjHi ELSE 0)

\* variant: a running zone is stopped as soon as it is above the low threshold
checkMoistureBased_StopAboveLow(z, st) ==
  LET s1 == IF soilMoisture[z] <= effectiveLow(st.zc) /\ ~st.on
              THEN startWatering(st, "moisture") ELSE st
  IN IF soilMoisture[z] > effectiveLow(s1.zc) /\ s1.on
       THEN stopWatering(s1, "moisture") ELSE s1

checkMoistureBased(z, st) ==
  LET s1 == IF soilMoisture[z] <= effectiveLow(st.zc) /\ ~st.on
              THEN startWatering(st, "moisture") ELSE st
  IN IF soilMoisture[z] >= effectiveHigh(s1.zc) /\ s1.on
       THEN stopWatering(s1, "moisture") ELSE s1

\* variant: the window includes its end minute
isInScheduledWindow_ClosedEnd(zc) ==
  LET startMinutes == zc.schedule.startHour * 60 + zc.schedule.startMinute
      endMinutes == startMinutes + zc.schedule.duration
  IN /\ zc.schedule.enabled
     /\ timeSet
     /\ zc.schedule.days[Weekday(Now) - 1]
     /\ MinuteOfDay(Now) >= startMinutes
     /\ MinuteOfDay(Now) <= endMinutes

\* variant: the window is evaluated whether or not the clock was set
isInScheduledWindow_IgnoresClock(zc) ==
  LET startMinutes == zc.schedule.startHour * 60 + zc.schedule.startMinute
      endMinutes == startMinutes + zc.schedule.duration
  IN /\ zc.schedule.enabled
     /\ zc.schedule.days[Weekday(Now) - 1]
     /\ MinuteOfDay(Now) >= startMinutes
     /\ MinuteOfDay(Now) < endMinutes

isInScheduledWindow(zc) ==
  LET startMinutes == zc.schedule.startHour * 60 + zc.schedule.startMinute
      endMinutes == startMinutes + zc.schedule.duration
  IN /\ zc.schedule.enabled
     /\ timeSet
     /\ zc.schedule.days[Weekday(Now) - 1]
     /\ MinuteOfDay(Now) >= startMinutes
     /\ MinuteOfDay(Now) < endMinutes

checkTimeBased(z, st) ==
  IF ~st.zc.schedule.enabled THEN st
  ELSE LET s1 == IF /\ isInScheduledWindow(st.zc)
                    /\ ~st.on
                    /\ DayOfMonth(Now) # DayOfMonth(st.zc.lastWatered)
                   THEN startWatering(st, "schedule") ELSE st
       IN IF s1.on /\ RunTime(s1.zc) >= s1.zc.schedule.duration
            THEN stopWatering(s1, "duration") ELSE s1

checkHybridMode(z, st) ==
  IF ~st.zc.schedule.enabled THEN checkMoistureBased(z, st)
  ELSE IF isInScheduledWindow(st.zc) THEN checkMoistureBased(z, st)
  ELSE IF st.on THEN stopWatering(st, "window") ELSE st

checkSafetyLimits(z, st) ==
  IF st.on
    THEN LET runTime == RunTime(st.zc)
             s1 == IF runTime >= st.zc.maxDuration
                     THEN stopWatering(st, "maxDuration") ELSE st
         IN IF s1.zc.totalWateringToday >= sysConfig.maxDailyWatering
              THEN stopWatering(s1, "dailyLimit") ELSE s1
    ELSE st

Frozen == sysConfig.freezeProtect /\ temp < sysConfig.freezeTemp

\* variant: the freeze branch skips disabled zones
ZoneTick_FreezeSkipsDisabled(z) ==
  LET st == ZoneSt(z)
  IN IF z >= sysConfig.zones THEN st
     ELSE IF ~st.zc.enabled THEN st
     ELSE IF Frozen THEN (IF st.on THEN stopWatering(st, "freeze") ELSE st)
     ELSE LET s1 == checkSafetyLimits(z, st)
          IN CASE s1.zc.mode = MODE_MOISTURE_ONLY -> checkMoistureBased(z, s1)
               [] s1.zc.mode = MODE_TIME_ONLY -> checkTimeBased(z, s1)
               [] s1.zc.mode = MODE_HYBRID -> checkHybridMode(z, s1)
               [] OTHER -> s1

\* variant: a zone in manual mode is run by the moisture strategy
ZoneTick_ManualAsMoisture(z) ==
  LET st == ZoneSt(z)
  IN IF z >= sysConfig.zones THEN st
     ELSE IF Frozen THEN (IF st.on THEN stopWatering(st, "freeze") ELSE st)
     ELSE IF ~st.zc.enabled THEN st
     ELSE LET s1 == checkSafetyLimits(z, st)
          IN CASE s1.zc.mode = MODE_MOISTURE_ONLY -> checkMoistureBased(z, s1)
               [] s1.zc.mode = MODE_TIME_ONLY -> checkTimeBased(z, s1)
               [] s1.zc.mode = MODE_HYBRID -> checkHybridMode(z, s1)
               [] OTHER -> checkMoistureBased(z, s1)

\* what one call of updateIrrigation does to zone z
ZoneTick(z) ==
  LET st == ZoneSt(z)
  IN IF z >= sysConfig.zones THEN st
     ELSE IF Frozen THEN (IF st.on THEN stopWatering(st, "freeze") ELSE st)
     ELSE IF ~st.zc.enabled THEN st
     ELSE LET s1 == checkSafetyLimits(z, st)
          IN CASE s1.zc.mode = MODE_MOISTURE_ONLY -> checkMoistureBased(z, s1)
               [] s1.zc.mode = MODE_TIME_ONLY -> checkTimeBased(z, s1)
               [] s1.zc.mode = MODE_HYBRID -> checkHybridMode(z, s1)
               [] OTHER -> s1

----------------------------------------------------------------------------
(* The engine of the V3.1 sketch *)

\* startWatering(z) of V3.1: the pin and the bit of relayStatus
startWateringLean(st, by) ==
  [st EXCEPT !.pin = Level(sysConfig.relayOn),
             !.on = TRUE,
             !.ev = Append(@, Call("start", by, st))]

\* stopWatering(z) of V3.1
stopWateringLean(st, by) ==
  [st EXCEPT !.pin = Level(~sysConfig.relayOn),
             !.on = FALSE,
             !.ev = Append(@, Call("stop", by, st))]

\* what one call of updateIrrigation of V3.1 does to zone z: every enabled
\* zone that is not in manual mode is run on its moisture
ZoneTickLean(z) ==
  LET st == ZoneSt(z)
  IN IF z >= sysConfig.zones THEN st
     ELSE IF Frozen THEN (IF st.on THEN stopWateringLean(st, "freeze") ELSE st)
     ELSE IF ~st.zc.enabled \/ st.zc.mode = MODE_MANUAL THEN st
     ELSE LET effLow == st.zc.moistureLow + (IF IsHot THEN sysConfig.tempAdjLow ELSE 0)
              effHigh == st.zc.moistureHigh + (IF IsHot THEN sysConfig.tempAdjHi ELSE 0)
              s1 == IF soilMoisture[z] <= effLow /\ ~st.on
                      THEN startWateringLean(st, "moisture") ELSE st
          IN IF soilMoisture[z] >= effHigh /\ s1.on
               THEN stopWateringLean(s1, "moisture") ELSE s1

----------------------------------------------------------------------------
(* The engine of the V2.2 sketch *)

\* currentTemp >= config.tempSwitch, where currentTemp is tempF or tempC as
\* the display unit says and tempF = tempC * 9 / 5 + 32
IsHotV22 ==
  IF sysConfig.tempDisplayF
    THEN temp >= sysConfig.tempSwitch
    ELSE (temp - 32) * 5 >= 9 * sysConfig.tempSwitch

\* what one call of updateIrrigation of V2.2 does to zone z
ZoneTickV22(z) ==
  LET st == ZoneSt(z)
      effectiveLowV22 == st.zc.moistureLow + (IF IsHotV22 THEN sysConfig.tempAdjLow ELSE 0)
      effectiveHighV22 == st.zc.moistureHigh + (IF IsHotV22 THEN sysConfig.tempAdjHi ELSE 0)
  IN IF z >= sysConfig.zones THEN st
     ELSE IF soilMoisture[z] <= effectiveLowV22 /\ ~st.on
       THEN startWateringLean(st, "moisture")
     ELSE IF soilMoisture[z] >= effectiveHighV22 /\ st.on
       THEN stopWateringLean(st, "moisture")
     ELSE st

----------------------------------------------------------------------------
(* Sensor reading *)

\* C integer division, which truncates toward zero (b # 0)
CDiv(a, b) ==
  IF (a >= 0) = (b > 0)
    THEN (IF a >= 0 THEN a ELSE -a) \div (IF b > 0 THEN b ELSE -b)
    ELSE -((IF a >= 0 THEN a ELSE -a) \div (IF b > 0 THEN b ELSE -b))

\* Arduino map(x, in_min, in_max, out_min, out_max), for in_max # in_min
map(x, in_min, in_max, out_min, out_max) ==
  CDiv((x - in_min) * (out_max - out_min), in_max - in_min) + out_min

\* variant: the reading is not constrained from above
Constrain_NoUpper(reading, dryCal, wetCal) ==
  IF reading < dryCal THEN dryCal ELSE reading

\* the two constraining assignments of readSensors
Constrain(reading, dryCal, wetCal) ==
  LET r1 == IF reading < dryCal THEN dryCal ELSE reading
  IN IF r1 > wetCal THEN wetCal ELSE r1

\* what a division by zero may leave in soilMoisture
DivZeroOutcomes == {-1, 0}

\* the values readSensors may store for a raw reading
MoistureOf(reading, zc) ==
  IF zc.wetCal = zc.dryCal
    THEN DivZeroOutcomes
    ELSE {map(Constrain(reading, zc.dryCal, zc.wetCal), zc.dryCal, zc.wetCal, 0, 100)}

\* the ways of taking one element of out[z] for every zone z
RECURSIVE Picks(_, _)
Picks(out, n) ==
  IF n = 0 THEN {<<>>}
  ELSE {Append(s, o) : s \in Picks(out, n - 1), o \in out[n - 1]}

PerZone(out) == {[z \in ZoneIds |-> s[z + 1]] : s \in Picks(out, MaxZones)}

SensorRead(z) == z < sysConfig.zones /\ zones[z].enabled

----------------------------------------------------------------------------
(* Inputs *)

Temps == {0, 70, 95}
Raws == {125, 300, 440}
CoarseRaws == {125, 440}
DryRaws == {125}
AdjLows == {6, 35}

\* raw readings that the default calibration maps to 40, 41, 46, 47, 69, 70, 73, 74
FineRaws == {295, 300, 321, 325, 419, 423, 436, 440}

\* calibrations <<dryCal, wetCal>>: the default, a narrow one, an empty and an
\* inverted range
CalPairs == {<<125, 550>>, <<200, 203>>, <<300, 300>>, <<550, 125>>}

\* raw readings of the 10-bit converter, around the calibration points
SensorRaws == {0, 125, 126, 201, 202, 300, 337, 549, 550, 1023}

UnitsPerDay == (DayMinutes * MsPerMinute) \div UnitMs

\* wall time at boot: one unit before the midnight that begins day 2 of a month
BootEpochs == {UnitsPerDay * (MonthDays + 1) - 1}

----------------------------------------------------------------------------
(* Actions *)

NoEv == [z \in ZoneIds |-> <<>>]

\* loop() is between two handlers
AtLoop == [op |-> "loop"]

\* variant: a tick may run while a handler is at work
UpdateIrrigation_Interleaved ==
  /\ LET r == [z \in ZoneIds |-> ZoneTick(z)]
     IN /\ relaystatus' = [z \in ZoneIds |-> r[z].on]
        /\ zones' = [z \in ZoneIds |-> r[z].zc]
        /\ pins' = [z \in ZoneIds |-> r[z].pin]
        /\ ev' = [z \in ZoneIds |-> r[z].ev]
  /\ ticks' = 1 - ticks
  /\ UNCHANGED <<eeprom, pc, currentMenu, sysConfig, soilMoisture, temp, rawRead, millis, timeSet, timeBase, divZero>>

\* updateIrrigation(): one tick of the control loop
UpdateIrrigation ==
  /\ pc = AtLoop
  /\ LET r == [z \in ZoneIds |-> ZoneTick(z)]
     IN /\ relaystatus' = [z \in ZoneIds |-> r[z].on]
        /\ zones' = [z \in ZoneIds |-> r[z].zc]
        /\ pins' = [z \in ZoneIds |-> r[z].pin]
        /\ ev' = [z \in ZoneIds |-> r[z].ev]
  /\ ticks' = 1 - ticks
  /\ UNCHANGED <<eeprom, pc, currentMenu, sysConfig, soilMoisture, temp, rawRead, millis, timeSet, timeBase, divZero>>

\* updateIrrigation() of V3.1
UpdateIrrigationLean ==
  /\ pc = AtLoop
  /\ LET r == [z \in ZoneIds |-> ZoneTickLean(z)]
     IN /\ relaystatus' = [z \in ZoneIds |-> r[z].on]
        /\ zones' = [z \in ZoneIds |-> r[z].zc]
        /\ pins' = [z \in ZoneIds |-> r[z].pin]
        /\ ev' = [z \in ZoneIds |-> r[z].ev]
  /\ ticks' = 1 - ticks
  /\ UNCHANGED <<eeprom, pc, currentMenu, sysConfig, soilMoisture, temp, rawRead, millis, timeSet, timeBase, divZero>>

\* updateIrrigation() of V2.2
UpdateIrrigationV22 ==
  /\ pc = AtLoop
  /\ LET r == [z \in ZoneIds |-> ZoneTickV22(z)]
     IN /\ relaystatus' = [z \in ZoneIds |-> r[z].on]
        /\ zones' = [z \in ZoneIds |-> r[z].zc]
        /\ pins' = [z \in ZoneIds |-> r[z].pin]
        /\ ev' = [z \in ZoneIds |-> r[z].ev]
  /\ ticks' = 1 - ticks
  /\ UNCHANGED <<eeprom, pc, currentMenu, sysConfig, soilMoisture, temp, rawRead, millis, timeSet, timeBase, divZero>>

\* the menu edit of the temperature unit of V2.2: config.tempDispF = editValue & 1
SetTempUnit(v) ==
  /\ pc = AtLoop
  /\ sysConfig' = [sysConfig EXCEPT !.tempDisplayF = v]
  /\ ev' = NoEv
  /\ UNCHANGED <<eeprom, ticks, pc, currentMenu, zones, soilMoisture, temp, relaystatus, pins,
                 rawRead, millis, timeSet, timeBase, divZero>>

\* the (raw, percentage) pairs one call of readSensors may leave for zone z
SensorOutcomes(z, R) ==
  IF SensorRead(z)
    THEN UNION {{<<raw, m>> : m \in MoistureOf(raw, zones[z])} : raw \in R}
    ELSE {<<rawRead[z], soilMoisture[z]>>}

SensorResults(R) == PerZone([z \in ZoneIds |-> SensorOutcomes(z, R)])

\* what DHT.read() may return
DhtStatuses == {"AM2315C_OK", "AM2315C_ERROR"}

\* readSensors() when the temperature read leaves a value of T in temp; each
\* enabled zone below sysConfig.zones gets a raw value from R
ReadSensorsGiven(R, T) ==
  /\ pc = AtLoop
  /\ temp' \in T
  /\ \E f \in SensorResults(R) :
       /\ rawRead' = [z \in ZoneIds |-> f[z][1]]
       /\ soilMoisture' = [z \in ZoneIds |-> f[z][2]]
  /\ divZero' = {z \in ZoneIds : SensorRead(z) /\ zones[z].wetCal = zones[z].dryCal}
  /\ ev' = NoEv
  /\ UNCHANGED <<eeprom, ticks, pc, currentMenu, sysConfig, zones, relaystatus, pins, millis, timeSet, timeBase>>

\* variant: a failed read stores what the library returns
ReadSensorsAs_ErrorStoresReading(R, status) == ReadSensorsGiven(R, Temps)

\* readSensors() when DHT.read() returns status: a failed read keeps temp
ReadSensorsAs(R, status) ==
  ReadSensorsGiven(R, IF status = "AM2315C_OK" THEN Temps ELSE {temp})

\* readSensors(): the temperature read may fail
ReadSensors(R) == ReadSensorsGiven(R, UNION {IF status = "AM2315C_OK" THEN Temps ELSE {temp} :
                                               status \in DhtStatuses})

\* time passes: millis() and with it now() advance by one unit
Advance ==
  /\ millis < MaxMillis
  /\ millis' = millis + 1
  /\ ev' = NoEv
  /\ UNCHANGED <<eeprom, ticks, pc, currentMenu, sysConfig, zones, soilMoisture, temp, relaystatus, pins, rawRead,
                 timeSet, timeBase, divZero>>

\* variant: the toggle always starts the zone
ControlZone_StartOnly(z) ==
  LET st == ZoneSt(z)
      r == startWatering(st, "manual")
  IN /\ pc = AtLoop
     /\ z < sysConfig.zones
     /\ relaystatus' = [relaystatus EXCEPT ![z] = r.on]
     /\ zones' = [zones EXCEPT ![z] = r.zc]
     /\ pins' = [pins EXCEPT ![z] = r.pin]
     /\ ev' = [NoEv EXCEPT ![z] = r.ev]
     /\ UNCHANGED <<eeprom, ticks, pc, currentMenu, sysConfig, soilMoisture, temp, rawRead, millis, timeSet, timeBase, divZero>>

\* the manual toggle of a zone
ControlZone(z) ==
  LET st == ZoneSt(z)
      r == IF st.on THEN stopWatering(st, "manual") ELSE startWatering(st, "manual")
  IN /\ pc = AtLoop
     /\ z < sysConfig.zones
     /\ relaystatus' = [relaystatus EXCEPT ![z] = r.on]
     /\ zones' = [zones EXCEPT ![z] = r.zc]
     /\ pins' = [pins EXCEPT ![z] = r.pin]
     /\ ev' = [NoEv EXCEPT ![z] = r.ev]
     /\ UNCHANGED <<eeprom, ticks, pc, currentMenu, sysConfig, soilMoisture, temp, rawRead, millis, timeSet, timeBase, divZero>>

\* variant: winterize() pulses the disabled zones too
ToPulse_All(i) == {z \in ZoneIds : z >= i /\ z < sysConfig.zones}

\* the zones that the loop of winterize() pulses from index i on
ToPulse(i) == {z \in ZoneIds : z >= i /\ z < sysConfig.zones /\ zones[z].enabled}

Min(S) == CHOOSE x \in S : \A y \in S : x <= y

\* winterize() about to handle the indices from i on, after the pulses of done
WinterizeAt(i, done) ==
  IF ToPulse(i) = {} THEN AtLoop
  ELSE [op |-> "winterize", zone |-> Min(ToPulse(i)), on |-> FALSE, done |-> done]

\* POST /api/winterize: handleWeb calls winterize(), which returns only after
\* the last pulse
Winterize ==
  /\ pc = AtLoop
  /\ pc' = WinterizeAt(0, <<>>)
  /\ ev' = NoEv
  /\ UNCHANGED <<eeprom, ticks, currentMenu, sysConfig, zones, soilMoisture, temp, relaystatus,
                 pins, rawRead, millis, timeSet, timeBase, divZero>>

\* winterize(): digitalWrite(i + 2, sysConfig.relayOn), then delay(5000)
WinterizeOn ==
  /\ pc.op = "winterize"
  /\ ~pc.on
  /\ pins' = [pins EXCEPT ![pc.zone] = Level(sysConfig.relayOn)]
  /\ pc' = [pc EXCEPT !.on = TRUE]
  /\ UNCHANGED <<eeprom, ticks, currentMenu, sysConfig, zones, soilMoisture, temp, relaystatus,
                 rawRead, millis, timeSet, timeBase, divZero, ev>>

\* winterize(): digitalWrite(i + 2, !sysConfig.relayOn), delay(1000), next i
WinterizeOff ==
  /\ pc.op = "winterize"
  /\ pc.on
  /\ pins' = [pins EXCEPT ![pc.zone] = Level(~sysConfig.relayOn)]
  /\ pc' = WinterizeAt(pc.zone + 1, Append(pc.done, pc.zone))
  /\ UNCHANGED <<eeprom, ticks, currentMenu, sysConfig, zones, soilMoisture, temp, relaystatus,
                 rawRead, millis, timeSet, timeBase, divZero, ev>>

\* POST /api/system with the key "relay": the relay convention is set (the
\* save of the handler is SetSystem of the store specification)
SetRelay(v) ==
  /\ pc = AtLoop
  /\ sysConfig' = [sysConfig EXCEPT !.relayOn = v]
  /\ ev' = NoEv
  /\ UNCHANGED <<eeprom, ticks, pc, currentMenu, zones, soilMoisture, temp, relaystatus, pins,
                 rawRead, millis, timeSet, timeBase, divZero>>

\* enum MenuState of the V3.0 sketch
MenuStates ==
  {"MENU_STATUS", "MENU_MAIN", "MENU_ZONE_CONFIG", "MENU_ZONE_SELECT", "MENU_ZONE_SETTINGS",
   "MENU_ZONE_CALIBRATE", "MENU_SCHEDULE_CONFIG", "MENU_SCHEDULE_SELECT",
   "MENU_SCHEDULE_EDIT", "MENU_SYSTEM_CONFIG", "MENU_NETWORK_CONFIG", "MENU_TIME_CONFIG",
   "MENU_MANUAL_CONTROL", "MENU_WINTERIZE", "MENU_DATA_LOG"}

\* handleButtons() of V3.0, Menu pressed, on the pair of currentMenu and inEdit:
\* leave the edit, or one level back in the hierarchy
menuBack(m) ==
  IF m.inEdit THEN [m EXCEPT !.inEdit = FALSE]
  ELSE [m EXCEPT !.currentMenu =
          CASE @ = "MENU_MAIN" -> "MENU_STATUS"
            [] @ \in {"MENU_ZONE_SELECT", "MENU_SCHEDULE_SELECT", "MENU_SYSTEM_CONFIG",
                      "MENU_NETWORK_CONFIG", "MENU_TIME_CONFIG", "MENU_MANUAL_CONTROL",
                      "MENU_WINTERIZE", "MENU_DATA_LOG"} -> "MENU_MAIN"
            [] @ \in {"MENU_ZONE_SETTINGS", "MENU_ZONE_CALIBRATE"} -> "MENU_ZONE_SELECT"
            [] @ = "MENU_SCHEDULE_EDIT" -> "MENU_SCHEDULE_SELECT"
            [] OTHER -> "MENU_STATUS"]

\* the submenus of the main menu that are modelled
Submenus == {"MENU_MANUAL_CONTROL", "MENU_WINTERIZE"}

MenuFrame ==
  /\ ev' = NoEv
  /\ UNCHANGED <<eeprom, ticks, pc, sysConfig, zones, soilMoisture, temp, relaystatus, pins,
                 rawRead, millis, timeSet, timeBase, divZero>>

\* handleButtons(), Select pressed (inEdit is never set): the status screen
\* opens the main menu, the main menu opens the submenu under the cursor, if
\* any
PressSelect ==
  /\ pc = AtLoop
  /\ currentMenu' \in (CASE currentMenu = "MENU_STATUS" -> {"MENU_MAIN"}
                         [] currentMenu = "MENU_MAIN" -> Submenus \cup {"MENU_MAIN"}
                         [] OTHER -> {currentMenu})
  /\ MenuFrame

\* handleButtons(), Menu pressed: one level back
PressMenu ==
  /\ pc = AtLoop
  /\ currentMenu' = (CASE currentMenu = "MENU_MAIN" -> "MENU_STATUS"
                       [] currentMenu \in Submenus -> "MENU_MAIN"
                       [] OTHER -> "MENU_STATUS")
  /\ MenuFrame

\* loop(), lines 431-434: updateIrrigation() is called on the status screen
\* only; in a menu the pass leaves the zones alone
Loop ==
  IF currentMenu = "MENU_STATUS"
    THEN UpdateIrrigation
    ELSE /\ pc = AtLoop
         /\ ticks' = 1 - ticks
         /\ ev' = NoEv
         /\ UNCHANGED <<eeprom, pc, currentMenu, sysConfig, zones, soilMoisture, temp, relaystatus,
                        pins, rawRead, millis, timeSet, timeBase, divZero>>

\* the threshold pairs <<low, high>> and the freeze settings
\* <<freeze, freezeT>> that a request may carry
Thresholds == {<<40, 70>>, <<75, 90>>}
FreezeSettings == {<<TRUE, 35>>, <<FALSE, 0>>}

\* POST /api/zone with the keys "low" and "high", first assignment:
\* zones[z].moistureLow = doc["low"]
WriteZoneLow(z, t) ==
  /\ pc = AtLoop
  /\ zones' = [zones EXCEPT ![z].moistureLow = t[1]]
  /\ pc' = [op |-> "writeZone", zone |-> z, before |-> zones[z],
            after |-> [zones[z] EXCEPT !.moistureLow = t[1], !.moistureHigh = t[2]]]
  /\ ev' = NoEv
  /\ UNCHANGED <<eeprom, ticks, currentMenu, sysConfig, soilMoisture, temp, relaystatus, pins,
                 rawRead, millis, timeSet, timeBase, divZero>>

\* ... second assignment: zones[z].moistureHigh = doc["high"]; the handler
\* ends with saveZoneConfig(z) (SetZone of the store specification)
WriteZoneHigh ==
  /\ pc.op = "writeZone"
  /\ zones' = [zones EXCEPT ![pc.zone].moistureHigh = pc.after.moistureHigh]
  /\ pc' = AtLoop
  /\ UNCHANGED <<eeprom, ticks, currentMenu, sysConfig, soilMoisture, temp, relaystatus, pins,
                 rawRead, millis, timeSet, timeBase, divZero, ev>>

\* POST /api/system with the keys "freeze" and "freezeT", first assignment:
\* sysConfig.freezeProtect = doc["freeze"]
WriteSystemFreeze(f) ==
  /\ pc = AtLoop
  /\ sysConfig' = [sysConfig EXCEPT !.freezeProtect = f[1]]
  /\ pc' = [op |-> "writeSystem", before |-> sysConfig,
            after |-> [sysConfig EXCEPT !.freezeProtect = f[1], !.freezeTemp = f[2]]]
  /\ ev' = NoEv
  /\ UNCHANGED <<eeprom, ticks, currentMenu, zones, soilMoisture, temp, relaystatus, pins,
                 rawRead, millis, timeSet, timeBase, divZero>>

\* ... second assignment: sysConfig.freezeTemp = doc["freezeT"]; the handler
\* ends with saveConfig() (SetSystem of the store specification)
WriteSystemFreezeT ==
  /\ pc.op = "writeSystem"
  /\ sysConfig' = [sysConfig EXCEPT !.freezeTemp = pc.after.freezeTemp]
  /\ pc' = AtLoop
  /\ UNCHANGED <<eeprom, ticks, currentMenu, zones, soilMoisture, temp, relaystatus, pins,
                 rawRead, millis, timeSet, timeBase, divZero, ev>>

\* syncNTP(): the first successful sync sets the clock to the wall time
SyncNTP ==
  /\ pc = AtLoop
  /\ ~timeSet
  /\ \E e \in BootEpochs : timeBase' = e
  /\ timeSet' = TRUE
  /\ ev' = NoEv
  /\ UNCHANGED <<eeprom, ticks, pc, currentMenu, sysConfig, zones, soilMoisture, temp, relaystatus, pins, rawRead,
                 millis, divZero>>

----------------------------------------------------------------------------
(* Configurations *)

DefaultSchedule ==
  [enabled |-> FALSE, startHour |-> 6, startMinute |-> 0, duration |-> 30,
   days |-> [d \in 0 .. 6 |-> FALSE]]

\* a daily window: the first minute of the day
DailySchedule ==
  [enabled |-> TRUE, startHour |-> 0, startMinute |-> 0, duration |-> 1,
   days |-> [d \in 0 .. 6 |-> TRUE]]

\* resetToDefaults(), zone part
DefaultZone(i, n) ==
  [enabled |-> (i < n), dryCal |-> 125, wetCal |-> 550,
   moistureLow |-> 40, moistureHigh |-> 70, mode |-> MODE_MOISTURE_ONLY,
   schedule |-> DefaultSchedule, maxDuration |-> 60,
   lastWatered |-> 0, wateringStart |-> 0, totalWateringToday |-> 0]

\* resetToDefaults(), system part
DefaultSystem ==
  [zones |-> 6, tempDisplayF |-> TRUE, relayOn |-> FALSE, tempSwitch |-> 92,
   tempAdjLow |-> 6, tempAdjHi |-> 4, maxDailyWatering |-> 180, freezeProtect |-> TRUE,
   freezeTemp |-> 35]

\* the configurations a boot may load
SysConfigs ==
  {[DefaultSystem EXCEPT !.zones = n, !.freezeProtect = fp,
                         !.tempAdjLow = a, !.maxDailyWatering = MaxDaily] :
     n \in 1 .. MaxZones, fp \in BOOLEAN, a \in AdjLows}

ZoneConfigs ==
  {[DefaultZone(0, 1) EXCEPT !.enabled = en, !.mode = m, !.schedule = sc,
                             !.maxDuration = MaxRun] :
     en \in BOOLEAN, m \in Modes, sc \in {DefaultSchedule, DailySchedule}}

----------------------------------------------------------------------------
(* The engine after setup(): configuration loaded, relays off, sensors read *)

\* what the readSensors() of setup leaves for the loaded configuration
BootReads(sc, zs, R) ==
  LET out == [z \in ZoneIds |->
                IF z < sc.zones /\ zs[z].enabled
                  THEN UNION {{<<raw, m>> : m \in MoistureOf(raw, zs[z])} : raw \in R}
                  ELSE {<<-1, 0>>}]
  IN PerZone(out)

InitEngineAt(SC, ZS, R, Synced, E) ==
  /\ sysConfig \in SC
  /\ zones \in ZS
  /\ relaystatus = [z \in ZoneIds |-> FALSE]
  /\ pins = [z \in ZoneIds |-> IF z < sysConfig.zones
                                 THEN Level(~sysConfig.relayOn) ELSE "INPUT"]
  /\ millis = 1
  /\ timeSet \in Synced
  /\ timeBase \in (IF timeSet THEN E ELSE {0})
  /\ temp \in Temps
  /\ \E f \in BootReads(sysConfig, zones, R) :
       /\ rawRead = [z \in ZoneIds |-> f[z][1]]
       /\ soilMoisture = [z \in ZoneIds |-> f[z][2]]
  /\ divZero = {z \in ZoneIds : z < sysConfig.zones /\ zones[z].enabled
                                /\ zones[z].wetCal = zones[z].dryCal}
  /\ ev = NoEv
  /\ eeprom = <<>>    \* the engine does not touch the store
  /\ ticks = 0
  /\ pc = AtLoop
  /\ currentMenu = "MENU_STATUS"

InitEngine(SC, ZS, R, synced) == InitEngineAt(SC, ZS, R, {synced}, BootEpochs)

\* one active zone, of every modelled configuration; the other slot is unused
Init ==
  InitEngine({sc \in SysConfigs : sc.zones = 1 /\ sc.tempAdjLow = DefaultSystem.tempAdjLow},
             {zs \in [ZoneIds -> ZoneConfigs \cup {DefaultZone(1, 1)}] :
                zs[0] \in ZoneConfigs /\ \A z \in ZoneIds \ {0} : zs[z] = DefaultZone(z, 1)},
             Raws, FALSE)

Next ==
  \/ UpdateIrrigation
  \/ ReadSensors(Raws)
  \/ Advance
  \/ SyncNTP
  \/ \E z \in ZoneIds : ControlZone(z)

Spec == Init /\ [][Next]_vars

\* the configurations of the zones next to zone 0: a disabled zone in moisture
\* mode or, for zone 1, an enabled zone in time mode
NeighbourConfigs(z) ==
  {zc \in ZoneConfigs :
     /\ zc.schedule = DailySchedule
     /\ \/ ~zc.enabled /\ zc.mode = MODE_MOISTURE_ONLY
        \/ z = 1 /\ zc.enabled /\ zc.mode = MODE_TIME_ONLY}

\* every slot active, zone 0 in every mode, enabled or not; the clock was set
\* by the sync of setup() and no time passes
InitFreeze ==
  InitEngine({sc \in SysConfigs : sc.zones = MaxZones /\ sc.tempAdjLow = DefaultSystem.tempAdjLow},
             {zs \in [ZoneIds -> {zc \in ZoneConfigs : zc.schedule = DailySchedule}] :
                \A z \in ZoneIds \ {0} : zs[z] \in NeighbourConfigs(z)},
             CoarseRaws, TRUE)

NextFreeze ==
  \/ UpdateIrrigation
  \/ ReadSensors(CoarseRaws)
  \/ \E z \in ZoneIds : ControlZone(z)

SpecFreeze == InitFreeze /\ [][NextFreeze]_vars

\* every slot active, both relay conventions, zones enabled or not; zone 0 in
\* moisture or manual mode, the others in manual mode; no time passes and the
\* readings of setup(), taken in mild weather, stay
InitActuator ==
  InitEngine({[sc EXCEPT !.relayOn = r] :
                sc \in {c \in SysConfigs : c.zones = MaxZones /\ ~c.freezeProtect
                                           /\ c.tempAdjLow = DefaultSystem.tempAdjLow},
                r \in BOOLEAN},
             {zs \in [ZoneIds -> {zc \in ZoneConfigs :
                                    /\ zc.schedule = DefaultSchedule
                                    /\ zc.mode \in {MODE_MOISTURE_ONLY, MODE_MANUAL}
                                    /\ zc.mode = MODE_MOISTURE_ONLY => zc.enabled}] :
                \A z \in ZoneIds \ {0} : zs[z].mode = MODE_MANUAL},
             CoarseRaws, TRUE)
  /\ ~IsHot
  /\ temp >= sysConfig.freezeTemp

NextActuator ==
  \/ UpdateIrrigation
  \/ \E z \in ZoneIds : ControlZone(z)
  \/ Winterize
  \/ WinterizeOn
  \/ WinterizeOff
  \/ \E v \in BOOLEAN : SetRelay(v)

SpecActuator == InitActuator /\ [][NextActuator]_vars

\* one enabled zone in moisture mode; the buttons are in use
InitMenu ==
  InitEngine({sc \in SysConfigs : sc.zones = 1 /\ sc.tempAdjLow = DefaultSystem.tempAdjLow},
             {zs \in [ZoneIds -> ZoneConfigs \cup {DefaultZone(1, 1)}] :
                /\ zs[0] \in ZoneConfigs
                /\ zs[0].enabled
                /\ zs[0].mode = MODE_MOISTURE_ONLY
                /\ zs[0].schedule = DefaultSchedule
                /\ \A z \in ZoneIds \ {0} : zs[z] = DefaultZone(z, 1)},
             CoarseRaws, FALSE)

NextMenu ==
  \/ Loop
  \/ ReadSensors(CoarseRaws)
  \/ Advance
  \/ PressSelect
  \/ PressMenu

SpecMenu == InitMenu /\ [][NextMenu]_vars

\* one enabled zone in moisture mode; the web handlers write its record and the
\* system record
NextWrite ==
  \/ UpdateIrrigation
  \/ ReadSensors(CoarseRaws)
  \/ \E z \in ZoneIds, t \in Thresholds : WriteZoneLow(z, t)
  \/ WriteZoneHigh
  \/ \E f \in FreezeSettings : WriteSystemFreeze(f)
  \/ WriteSystemFreezeT

SpecWrite == InitMenu /\ [][NextWrite]_vars

\* the V3.1 sketch with one enabled zone, in every mode, with a daily schedule
InitLean ==
  InitEngine({sc \in SysConfigs : sc.zones = 1},
             {zs \in [ZoneIds -> ZoneConfigs \cup {DefaultZone(1, 1)}] :
                /\ zs[0] \in ZoneConfigs
                /\ zs[0].enabled
                /\ zs[0].schedule = DailySchedule
                /\ \A z \in ZoneIds \ {0} : zs[z] = DefaultZone(z, 1)},
             Raws, TRUE)

NextLean ==
  \/ UpdateIrrigationLean
  \/ ReadSensors(Raws)

SpecLean == InitLean /\ [][NextLean]_vars

\* wall time at boot such that millis = MaxMillis is the midnight that begins
\* day 1 of a month
MidnightEpochs == {UnitsPerDay * 2 * MonthDays - MaxMillis}

\* schedules: enabled or not, starting at the first or the last minute of the
\* day, for one or two minutes, on every day or on Sundays
Schedules ==
  {[enabled |-> en, startHour |-> 0, startMinute |-> sm, duration |-> du,
    days |-> [d \in 0 .. 6 |-> all \/ d = 0]] :
     en \in BOOLEAN, sm \in {0, DayMinutes - 1}, du \in {1, 2}, all \in BOOLEAN}

\* one active, enabled zone in time or hybrid mode with every modelled
\* schedule, no freeze protection, the limits of the defaults; the clock was
\* set by the sync of setup(), or the sync failed
InitSchedule ==
  InitEngineAt({[DefaultSystem EXCEPT !.zones = 1, !.freezeProtect = FALSE]},
               {zs \in [ZoneIds -> {[DefaultZone(z, 1) EXCEPT !.mode = m, !.schedule = sc] :
                                      z \in ZoneIds, m \in {MODE_TIME_ONLY, MODE_HYBRID},
                                      sc \in Schedules}
                                   \cup {DefaultZone(z, 1) : z \in ZoneIds}] :
                  /\ zs[0].enabled /\ zs[0].mode # MODE_MOISTURE_ONLY
                  /\ \A z \in ZoneIds \ {0} : zs[z] = DefaultZone(z, 1)},
               CoarseRaws, BOOLEAN, BootEpochs \cup MidnightEpochs)

NextSchedule ==
  \/ UpdateIrrigation
  \/ ReadSensors(CoarseRaws)
  \/ Advance
  \/ \E z \in ZoneIds : ControlZone(z)

SpecSchedule == InitSchedule /\ [][NextSchedule]_vars

\* one active zone in moisture mode, finely graded readings, no time passing
InitMoisture ==
  InitEngine({sc \in SysConfigs : sc.zones = 1},
             {zs \in [ZoneIds -> ZoneConfigs \cup {DefaultZone(1, 1)}] :
                /\ zs[0] \in ZoneConfigs
                /\ zs[0].enabled
                /\ zs[0].mode = MODE_MOISTURE_ONLY
                /\ zs[0].schedule = DefaultSchedule
                /\ \A z \in ZoneIds \ {0} : zs[z] = DefaultZone(z, 1)},
             FineRaws, FALSE)

NextMoisture ==
  \/ UpdateIrrigation
  \/ ReadSensors(FineRaws)
  \/ \E z \in ZoneIds : ControlZone(z)

SpecMoisture == InitMoisture /\ [][NextMoisture]_vars

\* the V2.2 sketch with one zone and the default thresholds
NextV22 ==
  \/ UpdateIrrigationV22
  \/ ReadSensors(FineRaws)
  \/ \E v \in BOOLEAN : SetTempUnit(v)

SpecV22 == InitMoisture /\ [][NextV22]_vars

\* one active zone of every modelled calibration, in moisture or manual mode
InitSensor ==
  InitEngine({sc \in SysConfigs : sc.zones = 1 /\ sc.tempAdjLow = DefaultSystem.tempAdjLow},
             {zs \in [ZoneIds -> {[DefaultZone(z, 1) EXCEPT !.dryCal = c[1], !.wetCal = c[2],
                                                            !.mode = m] :
                                    z \in ZoneIds, c \in CalPairs,
                                    m \in {MODE_MOISTURE_ONLY, MODE_MANUAL}}] :
                /\ zs[0].enabled
                /\ \A z \in ZoneIds \ {0} : zs[z] = DefaultZone(z, 1)},
             DryRaws, FALSE)

NextSensor ==
  \/ UpdateIrrigation
  \/ ReadSensors(SensorRaws)
  \/ \E z \in ZoneIds : ControlZone(z)

SpecSensor == InitSensor /\ [][NextSensor]_vars

----------------------------------------------------------------------------
(* Persistence (V3.1) *)

StoreSlots == 16
StoreIds == 0 .. (StoreSlots - 1)
ChecksumMask == 23130      \* 0x5A5A
DefaultZoneCount == 6
EEPROM_SYS_ADDR == 0
EEPROM_ZONE_ADDR == 32
SysSize == 12              \* sizeof(SystemConfig)
ZoneSize == 19             \* sizeof(ZoneConfig)

RECURSIVE Xor(_, _)
Xor(a, b) ==
  IF a = 0 THEN b
  ELSE IF b = 0 THEN a
  ELSE 2 * Xor(a \div 2, b \div 2) + ((a + b) % 2)

Byte(x) == x % 256

\* calcChecksum(): the 16-bit sum of the twelve bytes of the record, xor 0x5A5A
calcChecksum(sc) ==
  Xor((Byte(sc.zones) + Byte(sc.tempDisplayF) + Byte(sc.relayOn) + Byte(sc.ntpEnabled)
       + Byte(sc.freezeProtect) + Byte(sc.timeZoneOffset) + Byte(sc.freezeTemp)
       + Byte(sc.tempSwitch) + Byte(sc.tempAdjLow) + Byte(sc.tempAdjHi)
       + Byte(sc.checksum) + Byte(sc.checksum \div 256)) % 65536,
      ChecksumMask)

\* setDefaults(), system part: the checksum field is left as it is
setDefaultsSystem(sc) ==
  [zones |-> DefaultZoneCount, tempDisplayF |-> 1, relayOn |-> 0, ntpEnabled |-> 1,
   freezeProtect |-> 1, timeZoneOffset |-> -5, freezeTemp |-> 35, tempSwitch |-> 92,
   tempAdjLow |-> 6, tempAdjHi |-> 4, checksum |-> sc.checksum]

\* variant: the two calibration values are exchanged
setDefaultsZone_CalSwapped(i) ==
  [name |-> <<"Zone", i + 1>>, dryCal |-> 550, wetCal |-> 125, moistureLow |-> 40,
   moistureHigh |-> 70, mode |-> MODE_MOISTURE_ONLY,
   enabled |-> (IF i < DefaultZoneCount THEN 1 ELSE 0), maxDuration |-> 60]

\* setDefaults(), zone part
setDefaultsZone(i) ==
  [name |-> <<"Zone", i + 1>>, dryCal |-> 125, wetCal |-> 550, moistureLow |-> 40,
   moistureHigh |-> 70, mode |-> MODE_MOISTURE_ONLY,
   enabled |-> (IF i < DefaultZoneCount THEN 1 ELSE 0), maxDuration |-> 60]

\* an erased EEPROM: every byte 0xFF
BlankSystem ==
  [zones |-> 255, tempDisplayF |-> 255, relayOn |-> 255, ntpEnabled |-> 255,
   freezeProtect |-> 255, timeZoneOffset |-> -1, freezeTemp |-> 255, tempSwitch |-> 255,
   tempAdjLow |-> 255, tempAdjHi |-> 255, checksum |-> 65535]

BlankZone ==
  [name |-> <<"0xFF">>, dryCal |-> -1, wetCal |-> -1, moistureLow |-> 255,
   moistureHigh |-> 255, mode |-> 255, enabled |-> 255, maxDuration |-> 255]

BlankStore == [sys |-> BlankSystem, zones |-> [i \in StoreIds |-> BlankZone]]

\* the globals before setup(): zero-initialised
ZeroSystem ==
  [zones |-> 0, tempDisplayF |-> 0, relayOn |-> 0, ntpEnabled |-> 0,
   freezeProtect |-> 0, timeZoneOffset |-> 0, freezeTemp |-> 0, tempSwitch |-> 0,
   tempAdjLow |-> 0, tempAdjHi |-> 0, checksum |-> 0]

ZeroZone ==
  [name |-> <<>>, dryCal |-> 0, wetCal |-> 0, moistureLow |-> 0,
   moistureHigh |-> 0, mode |-> 0, enabled |-> 0, maxDuration |-> 0]

\* saveConfig(): memory (sys, zones) and the store after the call
saveConfig(sc, zs, store) ==
  LET sc1 == [sc EXCEPT !.checksum = calcChecksum([sc EXCEPT !.checksum = 0])]
  IN [sys |-> sc1, zones |-> zs,
      store |-> [sys |-> sc1,
                 zones |-> [i \in StoreIds |->
                              IF i < sc1.zones THEN zs[i] ELSE store.zones[i]]]]

\* loadConfig(): memory (sys, zones) and the store after the call
loadConfig(sc, zs, store) ==
  LET stored == store.sys.checksum
      sc0 == [store.sys EXCEPT !.checksum = 0]
  IN IF calcChecksum(sc0) # stored \/ sc0.zones = 0 \/ sc0.zones > StoreSlots
       THEN saveConfig(setDefaultsSystem(sc0), [i \in StoreIds |-> setDefaultsZone(i)], store)
       ELSE [sys |-> sc0, zones |-> store.zones, store |-> store]

\* the EEPROM addresses of a record of n bytes at address a
Span(a, n) == a .. (a + n - 1)

\* where the record of zone z is stored
ZoneAddr(z) == EEPROM_ZONE_ADDR + z * ZoneSize

\* saveZoneConfig(z): EEPROM.put writes ZoneSize bytes at ZoneAddr(z); a
\* record that shares a byte with them no longer holds what was stored in it
saveZoneConfig(z, zs, store) ==
  LET written == Span(ZoneAddr(z), ZoneSize)
  IN [sys |-> IF Span(EEPROM_SYS_ADDR, SysSize) \cap written = {}
                THEN store.sys
                ELSE [store.sys EXCEPT !.zones = 255 - store.sys.zones],
      zones |-> [i \in StoreIds |->
                   IF ZoneAddr(i) = ZoneAddr(z) THEN zs[z]
                   ELSE IF Span(ZoneAddr(i), ZoneSize) \cap written = {} THEN store.zones[i]
                   ELSE [store.zones[i] EXCEPT !.name = <<"overwritten">>]]]

StoreFrame ==
  UNCHANGED <<soilMoisture, temp, relaystatus, pins, rawRead, millis, timeSet, timeBase,
              divZero, ev, ticks, pc, currentMenu>>

\* loop() serves requests once setup() has loaded a configuration
Running == sysConfig # ZeroSystem

\* setup(): loadConfig() after a power-on or a reset
LoadConfig ==
  /\ LET r == loadConfig(sysConfig, zones, eeprom)
     IN /\ sysConfig' = r.sys
        /\ zones' = r.zones
        /\ eeprom' = r.store
  /\ StoreFrame

\* POST /api/system with the keys "zones" and "adjL": any byte is stored
SetSystem(n, a) ==
  /\ Running
  /\ LET r == saveConfig([sysConfig EXCEPT !.zones = n, !.tempAdjLow = a], zones, eeprom)
     IN /\ sysConfig' = r.sys
        /\ zones' = r.zones
        /\ eeprom' = r.store
  /\ StoreFrame

\* POST /api/zone with the key "low": the record is set and saveZoneConfig(z)
\* writes it
SetZone(z, low) ==
  /\ Running
  /\ z < StoreSlots
  /\ zones' = [zones EXCEPT ![z].moistureLow = low]
  /\ eeprom' = saveZoneConfig(z, zones', eeprom)
  /\ UNCHANGED sysConfig
  /\ StoreFrame

\* bytes a request may carry
ZoneCounts == {0, 2, 8, 17}
LowBytes == {40, 50}
EditedZones == {0, 7}

\* a store that holds the defaults in every record, with their checksum
SavedStore ==
  LET sc == setDefaultsSystem(ZeroSystem)
  IN [sys |-> [sc EXCEPT !.checksum = calcChecksum(sc)],
      zones |-> [i \in StoreIds |-> setDefaultsZone(i)]]

\* what the EEPROM may hold at power-on: erased, the defaults, the defaults
\* with a checksum that does not match, the defaults with an edited zone
InitialStores ==
  {BlankStore, SavedStore, [SavedStore EXCEPT !.sys.checksum = 0],
   [SavedStore EXCEPT !.zones[7].moistureLow = 50]}

\* power-on: the globals are zero
InitStore ==
  /\ sysConfig = ZeroSystem
  /\ zones = [i \in StoreIds |-> ZeroZone]
  /\ eeprom \in InitialStores
  /\ soilMoisture = [z \in ZoneIds |-> 0]
  /\ temp = 0
  /\ relaystatus = [z \in ZoneIds |-> FALSE]
  /\ pins = [z \in ZoneIds |-> "INPUT"]
  /\ rawRead = [z \in ZoneIds |-> -1]
  /\ millis = 0
  /\ timeSet = FALSE
  /\ timeBase = 0
  /\ divZero = {}
  /\ ev = NoEv
  /\ ticks = 0
  /\ pc = AtLoop
  /\ currentMenu = "MENU_STATUS"

NextStore ==
  \/ LoadConfig
  \/ \E n \in ZoneCounts, a \in AdjLows : SetSystem(n, a)
  \/ \E z \in EditedZones, low \in LowBytes : SetZone(z, low)

SpecStore == InitStore /\ [][NextStore]_vars

\* POST /api/system with the key "zones" (V3.1): the number of zones in use is
\* stored as sent; the handler ends with saveConfig() (SetSystem of the store
\* specification) and touches no relay
WriteSystemZones(n) ==
  /\ pc = AtLoop
  /\ sysConfig' = [sysConfig EXCEPT !.zones = n]
  /\ ev' = NoEv
  /\ UNCHANGED <<eeprom, ticks, pc, currentMenu, zones, soilMoisture, temp, relaystatus,
                 pins, rawRead, millis, timeSet, timeBase, divZero>>

\* the V3.1 sketch with every slot in use, in moisture mode, and requests that
\* change the number of zones in use
InitZoneCount ==
  InitEngine({sc \in SysConfigs : sc.zones = MaxZones /\ sc.tempAdjLow = DefaultSystem.tempAdjLow},
             {[z \in ZoneIds |-> DefaultZone(z, MaxZones)]},
             DryRaws, FALSE)

NextZoneCount ==
  \/ UpdateIrrigationLean
  \/ ReadSensors(DryRaws)
  \/ \E n \in 1 .. MaxZones : WriteSystemZones(n)

SpecZoneCount == InitZoneCount /\ [][NextZoneCount]_vars

\* the sketch from power-on until DHT.read() first succeeds: temp holds its
\* initializer, one zone of every modelled configuration
InitColdStart ==
  /\ InitEngine({sc \in SysConfigs : sc.zones = 1 /\ sc.tempAdjLow = DefaultSystem.tempAdjLow},
                {zs \in [ZoneIds -> ZoneConfigs \cup {DefaultZone(1, 1)}] :
                   zs[0] \in ZoneConfigs /\ \A z \in ZoneIds \ {0} : zs[z] = DefaultZone(z, 1)},
                CoarseRaws, FALSE)
  /\ temp = 0

NextColdStart ==
  \/ UpdateIrrigation
  \/ ReadSensorsAs(CoarseRaws, "AM2315C_ERROR")
  \/ \E z \in ZoneIds : ControlZone(z)

SpecColdStart == InitColdStart /\ [][NextColdStart]_vars

----------------------------------------------------------------------------
(* Persistence (V4.0): the records lie at fixed addresses of a byte store.  *)
(* Under SpecGiga and SpecGigaRun sysConfig and zones hold the fields of    *)
(* the V4.0 records that are followed, relaystatus and pins cover the 14    *)
(* zones, and eeprom maps addresses to bytes.                               *)

MAX_ZONES == 14
EEPROM_ZONE_BASE == 0
EEPROM_SYSTEM_CONFIG == 2000
ZoneStride == 150
\* sizeof(ZoneConfig) and sizeof(SystemConfig) with 4-byte int and unsigned
\* long, as on the GIGA R1: 84 bytes ahead of moistureHistory[60], 240 for it, 4
\* for historyIndex
ZoneConfigSize == 328
SystemConfigSize == 60
\* offsetof(ZoneConfig, dryCal): enabled, name[17], two bytes of padding
DryCalOffset == 20
LastWateredOffset == 72
WateringStartOffset == 76
TotalTodayOffset == 80
\* offsetof(SystemConfig, zones)
ZonesOffset == 0
IntSize == 4

GigaZones == 0 .. (MAX_ZONES - 1)

ZoneRec(z) == <<"zone", z>>
SysRec == <<"sys", 0>>
Records == {SysRec} \cup {ZoneRec(z) : z \in GigaZones}

\* the address of a record and the bytes EEPROM.put writes for it
AddrOf(r) == IF r = SysRec THEN EEPROM_SYSTEM_CONFIG ELSE EEPROM_ZONE_BASE + r[2] * ZoneStride
SizeOf(r) == IF r = SysRec THEN SystemConfigSize ELSE ZoneConfigSize
RangeOf(r) == Span(AddrOf(r), SizeOf(r))

\* the offsets of the fields that are followed
FieldOffsets(r) ==
  IF r = SysRec THEN {ZonesOffset}
  ELSE {DryCalOffset, LastWateredOffset, WateringStartOffset, TotalTodayOffset}

\* where a record or one of its followed fields starts or ends: between two
\* consecutive edges every put and every get treats all bytes alike
Edges ==
  UNION {{AddrOf(r), AddrOf(r) + SizeOf(r)}
           \cup UNION {{AddrOf(r) + o, AddrOf(r) + o + IntSize} : o \in FieldOffsets(r)} :
         r \in Records}

\* the store keeps one byte, the first, of each run of bytes between edges
Addresses == Edges \cap UNION {RangeOf(r) : r \in Records}

\* an erased byte; a written byte belongs to the image v of record rec
ErasedByte == [rec |-> <<"erased", 0>>, v |-> <<>>]

\* EEPROM.put(AddrOf(r), object): every byte of the object is written
put(store, r, v) ==
  [a \in Addresses |-> IF a \in RangeOf(r) THEN [rec |-> r, v |-> v] ELSE store[a]]

\* the field at offset off of the object EEPROM.get reads at AddrOf(r): the
\* value written with the record if its bytes are still those of the record;
\* all bits set if they are erased; else what the bytes of the other records
\* make of it
get(store, r, field, off, erased, others) ==
  LET bytes == {store[a] : a \in Addresses \cap Span(AddrOf(r) + off, IntSize)}
  IN IF \A b \in bytes : b.rec = r THEN {b.v[field] : b \in bytes}
     ELSE IF \A b \in bytes : b = ErasedByte THEN {erased}
     ELSE others

\* saveSystemConfig(), saveZoneConfig(z)
saveSystemConfig40(sc, store) == put(store, SysRec, sc)
saveZoneConfig40(z, zs, store) == put(store, ZoneRec(z), zs[z])

\* saveConfiguration(): the system record, then the zones below sysConfig.zones
\* in ascending order from zone i on
RECURSIVE saveZonesFrom(_, _, _, _)
saveZonesFrom(i, sc, zs, store) ==
  IF i >= sc.zones THEN store
  ELSE saveZonesFrom(i + 1, sc, zs, saveZoneConfig40(i, zs, store))

saveConfiguration(sc, zs, store) == saveZonesFrom(0, sc, zs, saveSystemConfig40(sc, store))

\* resetToDefaults()
resetToDefaults ==
  [sys |-> [zones |-> DefaultZoneCount, relayOn |-> FALSE],
   zones |-> [z \in GigaZones |-> [dryCal |-> 125, lastWatered |-> 0, wateringStart |-> 0,
                                  totalWateringToday |-> 0]]]

\* what foreign bytes can read as: a count out of range or in range; for a
\* zone field the zeros that resetToDefaults leaves in moistureHistory
ForeignCounts == {0, MAX_ZONES}
ForeignInts == {0}
\* erased bytes read as an int, and as an unsigned long of milliseconds
\* (0xFFFFFFFF) in units of UnitMs
ErasedInt == -1
ErasedLong == 2 * (2147483647 \div UnitMs)

\* loadZoneConfig(z): the outcomes
loadZoneConfig(z, store) ==
  {[dryCal |-> d, lastWatered |-> l, wateringStart |-> w, totalWateringToday |-> t] :
     d \in get(store, ZoneRec(z), "dryCal", DryCalOffset, ErasedInt, ForeignInts),
     l \in get(store, ZoneRec(z), "lastWatered", LastWateredOffset, ErasedLong, ForeignInts),
     w \in get(store, ZoneRec(z), "wateringStart", WateringStartOffset, ErasedLong,
               ForeignInts),
     t \in get(store, ZoneRec(z), "totalWateringToday", TotalTodayOffset, ErasedInt,
               ForeignInts)}

\* the ways of taking one element of out[z] for every zone of zones[14]
PerGigaZone(out) == {[z \in GigaZones |-> s[z + 1]] : s \in Picks(out, MAX_ZONES)}

\* loadConfiguration(): the outcomes for the store
loadConfiguration(store) ==
  UNION {IF n < 1 \/ n > MAX_ZONES
           THEN {[sys |-> resetToDefaults.sys, zones |-> resetToDefaults.zones,
                  store |-> saveConfiguration(resetToDefaults.sys, resetToDefaults.zones,
                                              store)]}
           ELSE {[sys |-> [zones |-> n, relayOn |-> FALSE], zones |-> zs, store |-> store] :
                   zs \in PerGigaZone([z \in GigaZones |-> loadZoneConfig(z, store)])} :
         n \in get(store, SysRec, "zones", ZonesOffset, ErasedInt, ForeignCounts)}

\* what this machine leaves alone
GigaFrame ==
  /\ ev' = NoEv
  /\ UNCHANGED <<soilMoisture, temp, rawRead, timeSet, timeBase, divZero, ticks, pc,
                 currentMenu>>

\* a power loss and setup(): loadConfiguration(), the relays of the zones
\* below sysConfig.zones switched off
Boot40 ==
  /\ \E r \in loadConfiguration(eeprom) :
       /\ sysConfig' = r.sys
       /\ zones' = r.zones
       /\ eeprom' = r.store
  /\ relaystatus' = [z \in GigaZones |-> FALSE]
  /\ pins' = [z \in GigaZones |-> IF z < sysConfig'.zones THEN Level(~sysConfig'.relayOn)
                                  ELSE "INPUT"]
  /\ millis' = 1
  /\ GigaFrame

\* handleButtonPress(320) with selectedZone = z: capture raw as dry calibration
CalibrateDry40(z, raw) ==
  /\ z < sysConfig.zones
  /\ zones' = [zones EXCEPT ![z].dryCal = raw]
  /\ eeprom' = saveZoneConfig40(z, zones', eeprom)
  /\ UNCHANGED <<sysConfig, relaystatus, pins, millis>>
  /\ GigaFrame

\* handleSetSystem() with the key "zones"
SetSystem40(n) ==
  /\ sysConfig' = [sysConfig EXCEPT !.zones = n]
  /\ eeprom' = saveSystemConfig40(sysConfig', eeprom)
  /\ UNCHANGED <<zones, relaystatus, pins, millis>>
  /\ GigaFrame

\* handleControlZone() with "toggle", handleButtonPress(310): startWatering or
\* stopWatering of zone z, whatever sysConfig.zones is
Toggle40(z) ==
  /\ relaystatus' = [relaystatus EXCEPT ![z] = ~@]
  /\ pins' = [pins EXCEPT ![z] = Level(sysConfig.relayOn = ~relaystatus[z])]
  /\ zones' = [zones EXCEPT ![z] =
                 IF ~relaystatus[z] THEN [@ EXCEPT !.wateringStart = millis]
                 ELSE IF @.wateringStart > 0
                   THEN [@ EXCEPT !.totalWateringToday = @ + RunTime(zones[z]),
                                  !.lastWatered = Now,
                                  !.wateringStart = 0]
                 ELSE @]
  /\ UNCHANGED <<sysConfig, eeprom, millis>>
  /\ GigaFrame

\* the zones whose calibration is captured: the first two and the last
CalibratedZones == {0, 1, MAX_ZONES - 1}

\* a factory-fresh store, the first setup() done
InitGiga ==
  /\ \E r \in loadConfiguration([a \in Addresses |-> ErasedByte]) :
       /\ sysConfig = r.sys
       /\ zones = r.zones
       /\ eeprom = r.store
  /\ relaystatus = [z \in GigaZones |-> FALSE]
  /\ pins = [z \in GigaZones |-> IF z < sysConfig.zones THEN Level(~sysConfig.relayOn)
                                 ELSE "INPUT"]
  /\ soilMoisture = [z \in ZoneIds |-> 0]
  /\ temp = 0
  /\ rawRead = [z \in ZoneIds |-> -1]
  /\ millis = 1
  /\ timeSet = FALSE
  /\ timeBase = 0
  /\ divZero = {}
  /\ ev = NoEv
  /\ ticks = 0
  /\ pc = AtLoop
  /\ currentMenu = "MENU_STATUS"

NextGiga ==
  \/ Boot40
  \/ \E z \in CalibratedZones, raw \in CoarseRaws : CalibrateDry40(z, raw)
  \/ \E n \in {DefaultZoneCount, MAX_ZONES} : SetSystem40(n)

SpecGiga == InitGiga /\ [][NextGiga]_vars

\* zone 0 is watered by hand and calibrated while time passes, until its
\* daily total is above MaxDaily
NextGigaRun ==
  \/ Boot40
  \/ \E raw \in DryRaws : CalibrateDry40(0, raw)
  \/ zones[0].totalWateringToday <= MaxDaily /\ Toggle40(0)
  \/ Advance

SpecGigaRun == InitGiga /\ [][NextGigaRun]_vars

----------------------------------------------------------------------------
(* The button menu and the persistence of the V2.2 sketch. Under SpecButtons *)
(* sysConfig is Config config, zones is ZoneData zoneData[16], eeprom is the *)
(* stored image of both and currentMenu holds the variables of the menu      *)
(* system: menuState, menuCursor, selectedZone, editValue, editing.          *)

ChecksumMask22 == 42405    \* 0xA5A5
LastMainItem == 7

\* calcChecksum() with config.checksum = 0
calcChecksum22(c) ==
  Xor((c.zones + c.tempDispF + c.relayOn + c.tempSwitch + c.tempAdjLow + c.tempAdjHi) % 65536,
      ChecksumMask22)

\* setDefaults(): the checksum field is left as it is
setDefaults22(c) ==
  [cfg |-> [zones |-> 6, tempDispF |-> 1, relayOn |-> 0, tempSwitch |-> 92,
            tempAdjLow |-> 6, tempAdjHi |-> 4, checksum |-> c.checksum],
   zd |-> [i \in StoreIds |-> [dryCal |-> 125, wetCal |-> 550,
                              lowThresh |-> 40, highThresh |-> 70]]]

\* saveConfig(): the checksum is set in config and the image is written
saveConfig22(c, zd) ==
  LET c1 == [c EXCEPT !.checksum = calcChecksum22(c)]
  IN [cfg |-> c1, zd |-> zd, store |-> [config |-> c1, zoneData |-> zd]]

\* loadConfig(): config is read, its checksum field is zeroed for the check and
\* stays zero; zoneData is read if the check passes, else the defaults are
\* set and saved
loadConfig22(zd, store) ==
  LET c == [store.config EXCEPT !.checksum = 0]
  IN IF calcChecksum22(c) # store.config.checksum \/ c.zones = 0 \/ c.zones > 16
       THEN saveConfig22(setDefaults22(c).cfg, setDefaults22(c).zd)
       ELSE [cfg |-> c, zd |-> store.zoneData, store |-> store]

\* the menu after setup()
MenuRun == [menuState |-> "MENU_RUN", menuCursor |-> 0, selectedZone |-> 0,
            editValue |-> 0, editing |-> FALSE]

\* variant: MENU does not cancel an edit
menuButton_KeepsEditing(m) ==
  IF m.editing THEN m
  ELSE IF m.menuState = "MENU_RUN" THEN [m EXCEPT !.menuState = "MENU_MAIN", !.menuCursor = 0]
  ELSE IF m.menuState = "MENU_MAIN" THEN [m EXCEPT !.menuState = "MENU_RUN"]
  ELSE IF m.menuState = "MENU_ZONE_CONFIG" THEN [m EXCEPT !.menuState = "MENU_ZONE_SELECT"]
  ELSE [m EXCEPT !.menuState = "MENU_MAIN", !.menuCursor = 0]

\* handleButtons(), MENU pressed: cancel the edit, or one level back

menuButton(m) ==
  IF m.editing THEN [m EXCEPT !.editing = FALSE]
  ELSE IF m.menuState = "MENU_RUN" THEN [m EXCEPT !.menuState = "MENU_MAIN", !.menuCursor = 0]
  ELSE IF m.menuState = "MENU_MAIN" THEN [m EXCEPT !.menuState = "MENU_RUN"]
  ELSE IF m.menuState = "MENU_ZONE_CONFIG" THEN [m EXCEPT !.menuState = "MENU_ZONE_SELECT"]
  ELSE [m EXCEPT !.menuState = "MENU_MAIN", !.menuCursor = 0]

\* handleButtons(), UP pressed (uint8_t editValue)
upButton(m) ==
  IF m.editing THEN [m EXCEPT !.editValue = (@ + 1) % 256]
  ELSE IF m.menuCursor > 0 THEN [m EXCEPT !.menuCursor = @ - 1]
  ELSE m

\* handleButtons(), DOWN pressed (uint8_t menuCursor)
downButton(m) ==
  IF m.editing THEN (IF m.editValue > 0 THEN [m EXCEPT !.editValue = @ - 1] ELSE m)
  ELSE [m EXCEPT !.menuCursor = (@ + 1) % 256]

\* the menu of MENU_MAIN under the cursor and the value its edit starts from
MainItem(m, c) ==
  CASE m.menuCursor = 0 -> [m EXCEPT !.menuState = "MENU_ZONES", !.editValue = c.zones,
                                     !.editing = TRUE]
    [] m.menuCursor = 1 -> [m EXCEPT !.menuState = "MENU_TEMP_UNIT", !.editValue = c.tempDispF,
                                     !.editing = TRUE]
    [] m.menuCursor = 2 -> [m EXCEPT !.menuState = "MENU_RELAY_TYPE", !.editValue = c.relayOn,
                                     !.editing = TRUE]
    [] m.menuCursor = 3 -> [m EXCEPT !.menuState = "MENU_ZONE_SELECT", !.menuCursor = 0]
    [] m.menuCursor = 4 -> [m EXCEPT !.menuState = "MENU_TEMP_SWITCH", !.editValue = c.tempSwitch,
                                     !.editing = TRUE]
    [] m.menuCursor = 5 -> [m EXCEPT !.menuState = "MENU_TEMP_ADJ", !.menuCursor = 0]
    [] m.menuCursor = 6 -> [m EXCEPT !.menuState = "MENU_WINTERIZE"]
    [] m.menuCursor = LastMainItem -> [m EXCEPT !.menuState = "MENU_SAVE"]
    [] OTHER -> m

\* winterize(): every zone below config.zones is pulsed and left de-energized
winterize22(c, p) ==
  [z \in ZoneIds |-> IF z < c.zones THEN Level(c.relayOn = 0) ELSE p[z]]

\* handleSelect() when analogRead returns raw: the menu, the configuration,
\* the zone data, the store and the pins it leaves
handleSelect(m, c, zd, store, p, raw) ==
  LET same == [menu |-> m, cfg |-> c, zd |-> zd, store |-> store, pins |-> p]
      done(to) == [m EXCEPT !.editing = FALSE, !.menuState = to]
      s == m.menuState
      z == m.selectedZone
      v == m.editValue
  IN CASE s = "MENU_RUN" ->
            [same EXCEPT !.menu = [m EXCEPT !.menuState = "MENU_MAIN", !.menuCursor = 0]]
       [] s = "MENU_MAIN" -> [same EXCEPT !.menu = MainItem(m, c)]
       [] s = "MENU_ZONES" /\ m.editing ->
            [same EXCEPT !.menu = done("MENU_MAIN"),
                         !.cfg = IF v >= 1 /\ v <= 16 THEN [c EXCEPT !.zones = v] ELSE c]
       [] s = "MENU_TEMP_UNIT" /\ m.editing ->
            [same EXCEPT !.menu = done("MENU_MAIN"), !.cfg = [c EXCEPT !.tempDispF = v % 2]]
       [] s = "MENU_RELAY_TYPE" /\ m.editing ->
            [same EXCEPT !.menu = done("MENU_MAIN"), !.cfg = [c EXCEPT !.relayOn = v % 2]]
       [] s = "MENU_ZONE_SELECT" /\ m.menuCursor < c.zones ->
            [same EXCEPT !.menu = [m EXCEPT !.selectedZone = m.menuCursor,
                                            !.menuState = "MENU_ZONE_CONFIG",
                                            !.menuCursor = 0]]
       [] s = "MENU_ZONE_CONFIG" /\ m.menuCursor = 0 ->
            [same EXCEPT !.zd = [zd EXCEPT ![z].dryCal = raw]]
       [] s = "MENU_ZONE_CONFIG" /\ m.menuCursor = 1 ->
            [same EXCEPT !.zd = [zd EXCEPT ![z].wetCal = raw]]
       [] s = "MENU_ZONE_CONFIG" /\ m.menuCursor = 2 ->
            [same EXCEPT !.menu = [m EXCEPT !.menuState = "MENU_ZONE_LOW",
                                            !.editValue = zd[z].lowThresh, !.editing = TRUE]]
       [] s = "MENU_ZONE_CONFIG" /\ m.menuCursor = 3 ->
            [same EXCEPT !.menu = [m EXCEPT !.menuState = "MENU_ZONE_HIGH",
                                            !.editValue = zd[z].highThresh, !.editing = TRUE]]
       [] s = "MENU_ZONE_LOW" /\ m.editing ->
            [same EXCEPT !.menu = done("MENU_ZONE_CONFIG"),
                         !.zd = IF v <= 100 THEN [zd EXCEPT ![z].lowThresh = v] ELSE zd]
       [] s = "MENU_ZONE_HIGH" /\ m.editing ->
            [same EXCEPT !.menu = done("MENU_ZONE_CONFIG"),
                         !.zd = IF v <= 100 THEN [zd EXCEPT ![z].highThresh = v] ELSE zd]
       [] s = "MENU_TEMP_SWITCH" /\ m.editing ->
            [same EXCEPT !.menu = done("MENU_MAIN"), !.cfg = [c EXCEPT !.tempSwitch = v]]
       [] s = "MENU_TEMP_ADJ" ->
            \* the edit starts from the value under the cursor and ends at once
            LET v1 == IF m.menuCursor = 0 THEN c.tempAdjLow
                      ELSE IF m.menuCursor = 1 THEN c.tempAdjHi ELSE v
            IN IF m.menuCursor \in {0, 1} \/ m.editing
                 THEN [same EXCEPT !.menu = [m EXCEPT !.editValue = v1, !.editing = FALSE],
                                   !.cfg = IF m.menuCursor = 0
                                             THEN [c EXCEPT !.tempAdjLow = v1]
                                             ELSE [c EXCEPT !.tempAdjHi = v1]]
                 ELSE same
       [] s = "MENU_WINTERIZE" ->
            [same EXCEPT !.menu = [m EXCEPT !.menuState = "MENU_MAIN"],
                         !.pins = winterize22(c, p)]
       [] s = "MENU_SAVE" ->
            LET r == saveConfig22(c, zd)
            IN [same EXCEPT !.menu = [m EXCEPT !.menuState = "MENU_RUN"],
                            !.cfg = r.cfg, !.store = r.store]
       [] OTHER -> same

ButtonFrame ==
  /\ ev' = NoEv
  /\ UNCHANGED <<ticks, pc, temp, millis, timeSet, timeBase>>

PressMenu22 ==
  /\ currentMenu' = menuButton(currentMenu)
  /\ UNCHANGED <<sysConfig, zones, eeprom, pins, relaystatus, soilMoisture, rawRead, divZero>>
  /\ ButtonFrame

\* the presses of UP and DOWN that change editValue keep it 0 or 1; those that
\* move the cursor keep it on the items of the main menu
PressUp22 ==
  /\ currentMenu.editing => currentMenu.editValue = 0
  /\ currentMenu' = upButton(currentMenu)
  /\ UNCHANGED <<sysConfig, zones, eeprom, pins, relaystatus, soilMoisture, rawRead, divZero>>
  /\ ButtonFrame

PressDown22 ==
  /\ IF currentMenu.editing THEN currentMenu.editValue = 1
                            ELSE currentMenu.menuCursor < LastMainItem
  /\ currentMenu' = downButton(currentMenu)
  /\ UNCHANGED <<sysConfig, zones, eeprom, pins, relaystatus, soilMoisture, rawRead, divZero>>
  /\ ButtonFrame

PressSelect22(raw) ==
  /\ LET r == handleSelect(currentMenu, sysConfig, zones, eeprom, pins, raw)
     IN /\ currentMenu' = r.menu
        /\ sysConfig' = r.cfg
        /\ zones' = r.zd
        /\ eeprom' = r.store
        /\ pins' = r.pins
  /\ UNCHANGED <<relaystatus, soilMoisture, rawRead, divZero>>
  /\ ButtonFrame

\* what setup() leaves after a power-on with the store given, the sensors
\* returning raw: the configuration loaded, the relays off, the sensors read
setup22(zd, store, raw) ==
  LET r == loadConfig22(zd, store)
      reads == PerZone([z \in ZoneIds |->
                          IF z < r.cfg.zones
                            THEN {<<raw, mo>> : mo \in MoistureOf(raw, r.zd[z])}
                            ELSE {<<-1, 0>>}])
  IN {[cfg |-> r.cfg, zd |-> r.zd, store |-> r.store,
       pins |-> [z \in ZoneIds |-> IF z < r.cfg.zones THEN Level(r.cfg.relayOn = 0)
                                   ELSE "INPUT"],
       raw |-> [z \in ZoneIds |-> f[z][1]],
       moisture |-> [z \in ZoneIds |-> f[z][2]],
       divZero |-> {z \in ZoneIds : z < r.cfg.zones /\ r.zd[z].wetCal = r.zd[z].dryCal}] :
     f \in reads}

\* a power loss and the setup() of the next power-on: the globals start from
\* their initializers
Boot22(raw) ==
  /\ \E r \in setup22([i \in StoreIds |-> [dryCal |-> 0, wetCal |-> 0,
                                          lowThresh |-> 0, highThresh |-> 0]],
                      eeprom, raw) :
       /\ sysConfig' = r.cfg
       /\ zones' = r.zd
       /\ eeprom' = r.store
       /\ pins' = r.pins
       /\ rawRead' = r.raw
       /\ soilMoisture' = r.moisture
       /\ divZero' = r.divZero
  /\ relaystatus' = [z \in ZoneIds |-> FALSE]
  /\ currentMenu' = MenuRun
  /\ ButtonFrame

\* the raw value the sensors return while the buttons are in use
CaptureRaws == {300}

\* a store saved with one zone active
SavedStore22 ==
  LET d == setDefaults22([checksum |-> 0])
  IN saveConfig22([d.cfg EXCEPT !.zones = 1], d.zd).store

InitButtons ==
  /\ \E raw \in CaptureRaws :
       \E r \in setup22([i \in StoreIds |-> [dryCal |-> 0, wetCal |-> 0,
                                            lowThresh |-> 0, highThresh |-> 0]],
                        SavedStore22, raw) :
         /\ sysConfig = r.cfg
         /\ zones = r.zd
         /\ eeprom = r.store
         /\ pins = r.pins
         /\ rawRead = r.raw
         /\ soilMoisture = r.moisture
         /\ divZero = r.divZero
  /\ relaystatus = [z \in ZoneIds |-> FALSE]
  /\ currentMenu = MenuRun
  /\ temp = 0
  /\ millis = 0
  /\ timeSet = FALSE
  /\ timeBase = 0
  /\ ev = NoEv
  /\ ticks = 0
  /\ pc = AtLoop

NextButtons ==
  \/ PressMenu22
  \/ PressUp22
  \/ PressDown22
  \/ \E raw \in CaptureRaws : PressSelect22(raw)
  \/ \E raw \in CaptureRaws : Boot22(raw)

SpecButtons == InitButtons /\ [][NextButtons]_vars

----------------------------------------------------------------------------
(* Vocabulary of the properties *)

Active(z) == z < sysConfig.zones

\* the effective thresholds as the specification defines them
SpecLow(z) ==
  zones[z].moistureLow + (IF temp >= sysConfig.tempSwitch THEN sysConfig.tempAdjLow ELSE 0)

SpecHigh(z) ==
  zones[z].moistureHigh + (IF temp >= sysConfig.tempSwitch THEN sysConfig.tempAdjHi ELSE 0)

FreezeInForce == sysConfig.freezeProtect /\ temp < sysConfig.freezeTemp

\* milliseconds since zone z was started
ElapsedMs(z) == (millis - zones[z].wateringStart) * UnitMs

\* the calls of the last handler on zone z that have a given cause
CallsBy(e, causes) == {i \in 1 .. Len(e) : e[i].by \in causes}

Started(e, causes) == \E i \in CallsBy(e, causes) : e[i].op = "start"

Stopped(e, causes) == \E i \in CallsBy(e, causes) : e[i].op = "stop"

Overrides == {"freeze", "maxDuration", "dailyLimit"}

Strategies == {"moisture", "schedule", "duration", "window"}

----------------------------------------------------------------------------
(* C1: with freeze protection enabled and the temperature below            *)
(* freezeTemp, a tick leaves every zone IDLE with its pin at the inactive  *)
(* level, whatever its moisture, schedule, mode or enabled flag, and       *)
(* starts no zone.                                                         *)
C1_FreezeForcesIdle ==
  [][(UpdateIrrigation /\ FreezeInForce) =>
       \A z \in ZoneIds : Active(z) =>
         /\ ~relaystatus'[z]
         /\ pins'[z] = Level(~sysConfig.relayOn)
         /\ ~Started(ev'[z], Overrides \cup Strategies)]_vars

\* a freezing tick has just stopped every zone, one of them disabled
C1_Witness ==
  /\ FreezeInForce
  /\ \A z \in ZoneIds : Stopped(ev[z], {"freeze"}) /\ ~relaystatus[z]
  /\ \E z \in ZoneIds : ~zones[z].enabled
  /\ \E z \in ZoneIds : zones[z].enabled /\ zones[z].mode # MODE_MANUAL

(* C2: a zone that has watered for longer than its maxDuration minutes is  *)
(* IDLE at the end of the tick, in every mode and whatever the readings.   *)
C2_MaxDurationForcesIdle ==
  [][UpdateIrrigation =>
       \A z \in ZoneIds :
         (/\ Active(z)
          /\ relaystatus[z]
          /\ ElapsedMs(z) > zones[z].maxDuration * MsPerMinute) => ~relaystatus'[z]]_vars

(* C3: once a zone's totalWateringToday has reached maxDailyWatering the   *)
(* zone is IDLE at the end of every tick.                                  *)
C3_DailyCapKeepsIdle ==
  [][UpdateIrrigation =>
       \A z \in ZoneIds :
         (/\ Active(z)
          /\ zones[z].totalWateringToday >= sysConfig.maxDailyWatering) => ~relaystatus'[z]]_vars

(* C4: an enabled, IDLE zone in moisture mode, with no freeze override and *)
(* no safety limit in force, is WATERING at the end of a tick at which its *)
(* moisture is at or below the effective low threshold.                    *)
C4_LowMoistureStarts ==
  [][UpdateIrrigation =>
       \A z \in ZoneIds :
         (/\ Active(z)
          /\ zones[z].enabled
          /\ zones[z].mode = MODE_MOISTURE_ONLY
          /\ ~relaystatus[z]
          /\ ~FreezeInForce
          /\ zones[z].totalWateringToday < sysConfig.maxDailyWatering
          /\ soilMoisture[z] <= SpecLow(z)) => relaystatus'[z]]_vars

InBand(z) == SpecLow(z) < soilMoisture[z] /\ soilMoisture[z] < SpecHigh(z)

(* C5, as claimed: in moisture mode a tick with the moisture strictly      *)
(* between the effective thresholds changes the zone's state in neither    *)
(* direction, and the strategy stops a zone only at or above the effective *)
(* high threshold.                                                         *)
C5_BandKeepsState ==
  [][UpdateIrrigation =>
       \A z \in ZoneIds :
         (Active(z) /\ zones[z].mode = MODE_MOISTURE_ONLY) =>
           /\ InBand(z) => relaystatus'[z] = relaystatus[z]
           /\ Stopped(ev'[z], {"moisture"}) => soilMoisture[z] >= SpecHigh(z)]_vars

(* C5, amended: in moisture mode a tick with the moisture strictly between *)
(* the effective thresholds changes the zone's state in neither direction  *)
(* unless the freeze override, the max-duration limit or the daily cap     *)
(* stops the zone at that tick; the strategy makes no call in such a tick  *)
(* and stops a zone only at or above the effective high threshold.         *)
C5_BandKeepsStateUnlessOverride ==
  [][UpdateIrrigation =>
       \A z \in ZoneIds :
         (Active(z) /\ zones[z].mode = MODE_MOISTURE_ONLY) =>
           /\ InBand(z) =>
                /\ CallsBy(ev'[z], Strategies) = {}
                /\ \/ relaystatus'[z] = relaystatus[z]
                   \/ relaystatus[z] /\ ~relaystatus'[z] /\ Stopped(ev'[z], Overrides)
           /\ Stopped(ev'[z], {"moisture"}) => soilMoisture[z] >= SpecHigh(z)]_vars

\* a tick in the band has just stopped a moisture zone at its max duration,
\* and the strategy has left it stopped
C5_Witness ==
  \E z \in ZoneIds :
    /\ Active(z) /\ zones[z].enabled /\ zones[z].mode = MODE_MOISTURE_ONLY
    /\ InBand(z)
    /\ Stopped(ev[z], {"maxDuration"})
    /\ CallsBy(ev[z], Strategies) = {}
    /\ ~relaystatus[z]

(* C6: the moisture strategy starts an IDLE zone exactly when the moisture *)
(* is at or below low (+ tempAdjLow when temp >= tempSwitch) and stops a   *)
(* WATERING zone exactly when it is at or above high (+ tempAdjHi when     *)
(* temp >= tempSwitch).                                                    *)
C6_EffectiveThresholds ==
  [][UpdateIrrigation =>
       \A z \in ZoneIds :
         (/\ Active(z)
          /\ zones[z].enabled
          /\ zones[z].mode = MODE_MOISTURE_ONLY
          /\ ~FreezeInForce
          /\ CallsBy(ev'[z], Overrides) = {}) =>
           /\ ~relaystatus[z] =>
                (Started(ev'[z], {"moisture"}) <=> soilMoisture[z] <= SpecLow(z))
           /\ relaystatus[z] =>
                (Stopped(ev'[z], {"moisture"}) <=> soilMoisture[z] >= SpecHigh(z))]_vars

\* low=40, high=70, tempSwitch=92, adjLow=6, adjHigh=4, temp=95: a zone has
\* just been started at moisture 46
C6_Witness ==
  \E z \in ZoneIds :
    /\ zones[z].moistureLow = 40 /\ zones[z].moistureHigh = 70
    /\ sysConfig.tempSwitch = 92 /\ sysConfig.tempAdjLow = 6 /\ sysConfig.tempAdjHi = 4
    /\ temp = 95
    /\ soilMoisture[z] = 46
    /\ ev[z] = <<[op |-> "start", by |-> "moisture", was |-> FALSE]>>
    /\ relaystatus[z]

\* zone z holds a percentage computed from a reading
HasReading(z) == Active(z) /\ zones[z].enabled /\ rawRead[z] # -1

Clamped(raw, lo, hi) == IF raw <= lo THEN lo ELSE IF raw >= hi THEN hi ELSE raw

(* C7: with dryCal < wetCal the percentage lies in 0..100, is 0 for every  *)
(* raw <= dryCal and 100 for every raw >= wetCal, is within one of the     *)
(* linear image of the clamped reading (125/550: 337 gives 50 +- 1), and   *)
(* does not decrease when the raw reading does not decrease.               *)
C7_MoistureMapping ==
  /\ [](\A z \in ZoneIds :
          (HasReading(z) /\ zones[z].dryCal < zones[z].wetCal) =>
            LET dry == zones[z].dryCal
                wet == zones[z].wetCal
                m == soilMoisture[z]
                lin == 100 * (Clamped(rawRead[z], dry, wet) - dry)
            IN /\ m \in 0 .. 100
               /\ rawRead[z] <= dry => m = 0
               /\ rawRead[z] >= wet => m = 100
               /\ m * (wet - dry) - lin < wet - dry
               /\ lin - m * (wet - dry) < wet - dry
               /\ (dry = 125 /\ wet = 550 /\ rawRead[z] = 337) => m \in 49 .. 51)
  /\ [][\A z \in ZoneIds :
          (/\ HasReading(z) /\ HasReading(z)'
           /\ zones[z].dryCal < zones[z].wetCal
           /\ rawRead'[z] >= rawRead[z]) => soilMoisture'[z] >= soilMoisture[z]]_vars

\* dryCal=125, wetCal=550: the reading 337 has been mapped to 49 per cent
C7_Witness ==
  \E z \in ZoneIds :
    /\ HasReading(z)
    /\ zones[z].dryCal = 125 /\ zones[z].wetCal = 550
    /\ rawRead[z] = 337
    /\ soilMoisture[z] = 49

(* C8: for a zone with wetCal <= dryCal no reading divides by zero and the *)
(* zone is IDLE at the end of every tick.                                  *)
C8_InvalidCalibrationSafe ==
  /\ [](divZero = {})
  /\ [][UpdateIrrigation =>
          \A z \in ZoneIds :
            (Active(z) /\ zones[z].wetCal <= zones[z].dryCal) => ~relaystatus'[z]]_vars

\* the configuration held by a system record and zone records, the checksum
\* field aside
ConfigOf(sc, zs) == <<[sc EXCEPT !.checksum = 0], zs>>

DefaultConfig == ConfigOf(setDefaultsSystem(ZeroSystem), [i \in StoreIds |-> setDefaultsZone(i)])

StoreInvalid ==
  \/ calcChecksum([eeprom.sys EXCEPT !.checksum = 0]) # eeprom.sys.checksum
  \/ eeprom.sys.zones = 0
  \/ eeprom.sys.zones > StoreSlots

(* C9: loading a store whose checksum does not match or whose zone count   *)
(* is 0 or above 16 leaves the default configuration (system record and    *)
(* all 16 zone records) in memory and in the store.                        *)
C9_InvalidStoreYieldsDefaults ==
  [][(LoadConfig /\ StoreInvalid) =>
       /\ ConfigOf(sysConfig', zones') = DefaultConfig
       /\ ConfigOf(eeprom'.sys, eeprom'.zones) = DefaultConfig]_vars

(* C10: after every save of a configuration, a load returns the            *)
(* configuration that was saved, the system record and all 16 zone         *)
(* records; stated here for the saves with a zone count in 1..16 only.     *)
C10_SaveLoadRoundTrip ==
  [][((\E n \in ZoneCounts, a \in AdjLows : SetSystem(n, a))
        /\ sysConfig'.zones \in 1 .. StoreSlots) =>
       LET r == loadConfig(sysConfig', zones', eeprom')
       IN ConfigOf(r.sys, r.zones) = ConfigOf(sysConfig', zones')]_vars

(* C11: a tick that finds a zone idle whose last watering ended on an      *)
(* earlier calendar day leaves the zone's totalWateringToday at 0: the     *)
(* counter has been reset at the latest by the first tick after midnight.  *)
C11_DailyTotalResetAtMidnight ==
  [][UpdateIrrigation =>
       \A z \in ZoneIds :
         (/\ Active(z)
          /\ ~relaystatus[z]
          /\ zones[z].lastWatered # 0
          /\ DayIndex(zones[z].lastWatered) < DayIndex(Now)
          /\ CallsBy(ev'[z], Overrides \cup Strategies) = {}) =>
           zones'[z].totalWateringToday = 0]_vars

(* C12: a disabled zone is IDLE at the end of every tick, and no strategy  *)
(* acts on it.                                                             *)
C12_DisabledZoneIdle ==
  [][UpdateIrrigation =>
       \A z \in ZoneIds :
         (Active(z) /\ ~zones[z].enabled) =>
           /\ ~relaystatus'[z]
           /\ CallsBy(ev'[z], Strategies) = {}]_vars

\* the window of zone z's schedule as the specification defines it: today is
\* an enabled day and startTime <= time of day < startTime + durationMinutes
WindowOpen(z) ==
  LET sch == zones[z].schedule
      startTime == sch.startHour * 60 + sch.startMinute
  IN /\ sch.days[Weekday(Now) - 1]
     /\ startTime <= MinuteOfDay(Now)
     /\ MinuteOfDay(Now) < startTime + sch.duration

AnyCause == Overrides \cup Strategies \cup {"manual"}

C14_WindowStartsZone ==
  [][UpdateIrrigation =>
       \A z \in ZoneIds :
         (/\ Active(z)
          /\ zones[z].enabled
          /\ zones[z].mode = MODE_TIME_ONLY
          /\ zones[z].schedule.enabled
          /\ timeSet
          /\ WindowOpen(z)
          /\ ~relaystatus[z]
          /\ ~FreezeInForce
          /\ zones[z].totalWateringToday < sysConfig.maxDailyWatering
          /\ DayIndex(zones[z].lastWatered) # DayIndex(Now)) => relaystatus'[z]]_vars

(* C15: a WATERING zone in time mode is IDLE at the end of a tick at which *)
(* it has run for schedule.duration minutes or more, and its strategy      *)
(* stops it at no earlier tick.                                            *)
C15_DurationStopsZone ==
  [][UpdateIrrigation =>
       \A z \in ZoneIds :
         (Active(z) /\ zones[z].mode = MODE_TIME_ONLY /\ relaystatus[z]) =>
           /\ ElapsedMs(z) >= zones[z].schedule.duration * MsPerMinute => ~relaystatus'[z]
           /\ Stopped(ev'[z], Strategies) =>
                ElapsedMs(z) >= zones[z].schedule.duration * MsPerMinute]_vars

(* C16: the strategy of a zone in hybrid mode starts the zone only at a    *)
(* tick at which the schedule evaluator returns true for the zone.         *)
C16_HybridStartsInWindowOnly ==
  [][UpdateIrrigation =>
       \A z \in ZoneIds :
         (/\ Active(z)
          /\ zones[z].mode = MODE_HYBRID
          /\ Started(ev'[z], Strategies)) => isInScheduledWindow(zones[z])]_vars

(* C17: a WATERING zone in hybrid mode is IDLE at the end of a tick at     *)
(* which the schedule evaluator returns false for it, whatever its         *)
(* moisture.                                                               *)
C17_HybridStopsOutsideWindow ==
  [][UpdateIrrigation =>
       \A z \in ZoneIds :
         (/\ Active(z)
          /\ zones[z].mode = MODE_HYBRID
          /\ relaystatus[z]
          /\ ~isInScheduledWindow(zones[z])) => ~relaystatus'[z]]_vars

ManualZone(z) == Active(z) /\ zones[z].enabled /\ zones[z].mode = MODE_MANUAL

(* C18: a tick never starts an enabled zone in manual mode, calls no       *)
(* strategy for it and changes its state only by a stop of the freeze      *)
(* override, the max-duration limit or the daily cap; every other change   *)
(* of its state is a step of the manual toggle of that zone.               *)
C18_ManualZoneOnlyToggled ==
  [][\A z \in ZoneIds :
       ManualZone(z) =>
         /\ UpdateIrrigation =>
              /\ ~Started(ev'[z], AnyCause)
              /\ CallsBy(ev'[z], Strategies) = {}
              /\ relaystatus'[z] # relaystatus[z] => Stopped(ev'[z], Overrides)
         /\ relaystatus'[z] # relaystatus[z] => UpdateIrrigation \/ ControlZone(z)]_vars

\* a running manual zone was stopped by the max-duration limit of a tick
C18_Witness ==
  \E z \in ZoneIds :
    /\ ManualZone(z)
    /\ ~relaystatus[z]
    /\ ev[z] # <<>>
    /\ \A i \in 1 .. Len(ev[z]) : ev[z][i].op = "stop" /\ ev[z][i].by \in {"maxDuration", "dailyLimit"}

(* C19 (as stated): the schedule evaluator returns true exactly when the   *)
(* current day of week is enabled in the schedule and the time of day is   *)
(* in [startTime, startTime + duration).                                   *)
C19_EvaluatorIffDayAndWindow ==
  \A z \in ZoneIds : isInScheduledWindow(zones[z]) <=> WindowOpen(z)

(* C19 (amended): the schedule evaluator returns true exactly when the     *)
(* schedule is enabled, the clock has been set, the current day of week is *)
(* enabled in the schedule and the time of day is in                       *)
(* [startTime, startTime + duration); it is a function of the state.       *)
C19_EvaluatorIffEnabledSetDayAndWindow ==
  \A z \in ZoneIds :
    isInScheduledWindow(zones[z]) <=>
      (zones[z].schedule.enabled /\ timeSet /\ WindowOpen(z))

\* the evaluator is true for a zone that the schedule has just started
C19_Witness ==
  \E z \in ZoneIds :
    /\ Active(z)
    /\ isInScheduledWindow(zones[z])
    /\ relaystatus[z]
    /\ Started(ev[z], {"schedule"})

(* C20: in every state after setup, whatever loads, saves and writes of    *)
(* the system configuration came before, the number of zones in use is in *)
(* 1 .. StoreSlots.                                                        *)
C20_ZoneCountInRange ==
  Running => sysConfig.zones \in 1 .. StoreSlots

\* a configuration the engine can run safely with no further input
SelfConsistent(sc, zs) ==
  /\ sc.zones \in 1 .. StoreSlots
  /\ sc.relayOn = 0
  /\ sc.freezeProtect # 0
  /\ \A i \in StoreIds :
       /\ zs[i].moistureLow < zs[i].moistureHigh
       /\ zs[i].dryCal < zs[i].wetCal

(* C21: the configuration that setDefaults leaves in memory (here through  *)
(* a load that found the store invalid) has, in the system record and in   *)
(* every one of the 16 zone records, low < high, dryCal < wetCal, a zone    *)
(* count in 1 .. 16, relayOn = LOW and freeze protection enabled.          *)
C21_DefaultsSelfConsistent ==
  [][(LoadConfig /\ StoreInvalid) => SelfConsistent(sysConfig', zones')]_vars

\* defaults in memory after the load of an erased store
C21_Witness ==
  /\ Running
  /\ zones = [i \in StoreIds |-> setDefaultsZone(i)]
  /\ sysConfig.zones = DefaultZoneCount
  /\ eeprom.zones[StoreSlots - 1] = BlankZone

(* C22: a save of the record of zone z alone leaves the stored system      *)
(* record, checksum included, and the stored record of every other zone    *)
(* as they were, and a load after it returns the values saved for zone z.  *)
C22_ZoneSaveWritesOneRecord ==
  [][\A z \in EditedZones :
       (\E low \in LowBytes : SetZone(z, low)) =>
         /\ eeprom'.sys = eeprom.sys
         /\ \A i \in StoreIds \ {z} : eeprom'.zones[i] = eeprom.zones[i]
         /\ loadConfig(sysConfig', zones', eeprom').zones[z] = zones'[z]]_vars

\* the level of a zone's pin that energizes its relay
ActiveLevel == Level(sysConfig.relayOn)

(* C23: the toggle command for zone z is a step of its own, with no tick:  *)
(* it inverts the state of zone z, sets the pin of zone z to the level of  *)
(* the new state and leaves the state and the pin of every other zone as   *)
(* they were.                                                              *)
C23_ToggleInvertsOneZone ==
  [][\A z \in ZoneIds :
       ControlZone(z) =>
         /\ relaystatus'[z] = ~relaystatus[z]
         /\ (pins'[z] = ActiveLevel) = relaystatus'[z]
         /\ ticks' = ticks
         /\ \A y \in ZoneIds \ {z} :
              relaystatus'[y] = relaystatus[y] /\ pins'[y] = pins[y]]_vars

\* zone z has just been switched off by the toggle while another zone waters
C23_Witness ==
  \E z \in ZoneIds :
    /\ ev[z] = <<[op |-> "stop", by |-> "manual", was |-> TRUE]>>
    /\ ~relaystatus[z]
    /\ \E y \in ZoneIds \ {z} : relaystatus[y]

\* the zones that winterize pulses, in the order of their indices
Ascending(q) == \A i, j \in 1 .. Len(q) : i < j => q[i] < q[j]

Elements(q) == {q[i] : i \in 1 .. Len(q)}

EnabledZones == {z \in ZoneIds : Active(z) /\ zones[z].enabled}

(* C24: while winterize runs, only the pin of the zone at hand changes and *)
(* that zone is enabled; a pin is energized only when the pulses of the    *)
(* enabled zones of lower index, and of no other zone, are over and their  *)
(* pins are de-energized; winterize returns when every enabled zone has    *)
(* been pulsed, in index order, with the pins of all of them de-energized. *)
C24_WinterizePulsesInOrder ==
  [][pc.op = "winterize" =>
       /\ \A z \in ZoneIds : pins'[z] # pins[z] => z = pc.zone /\ z \in EnabledZones
       /\ (pc'.op = "winterize" /\ pc'.on /\ ~pc.on) =>
            /\ pins'[pc.zone] = ActiveLevel
            /\ Ascending(pc.done)
            /\ Elements(pc.done) = {y \in EnabledZones : y < pc.zone}
            /\ \A y \in Elements(pc.done) : pins[y] # ActiveLevel
       /\ pc' = AtLoop =>
            /\ Ascending(Append(pc.done, pc.zone))
            /\ Elements(Append(pc.done, pc.zone)) = EnabledZones
            /\ \A y \in EnabledZones : pins'[y] # ActiveLevel]_vars

\* winterize has pulsed zone 0 and energizes zone 1
C24_Witness ==
  /\ pc.op = "winterize"
  /\ pc.on
  /\ pc.done # <<>>
  /\ pins[pc.zone] = ActiveLevel
  /\ \A y \in Elements(pc.done) : pins[y] # ActiveLevel /\ y < pc.zone

(* C30: whenever loop() is between two handlers, for every zone in use and *)
(* for either relay convention, the pin of the zone is at the level that   *)
(* energizes the relay if and only if the zone is WATERING; also after a   *)
(* write of the relay convention and after winterize has returned.         *)
C30_PinMatchesState ==
  pc = AtLoop =>
    \A z \in ZoneIds : Active(z) => ((pins[z] = ActiveLevel) <=> relaystatus[z])

(* C27: at every pass of loop(), in every menu state, the three overrides  *)
(* are applied to every enabled WATERING zone: the freeze override stops   *)
(* it when the freeze condition holds, and otherwise the max-duration      *)
(* check or the daily-cap check stops it when its run has reached          *)
(* maxDuration or its daily total has reached maxDailyWatering.            *)
C27_OverridesAtEveryPass ==
  [][Loop =>
       \A z \in ZoneIds :
         (Active(z) /\ zones[z].enabled /\ relaystatus[z]) =>
           /\ FreezeInForce => Stopped(ev'[z], {"freeze"})
           /\ (/\ ~FreezeInForce
               /\ \/ ElapsedMs(z) >= zones[z].maxDuration * MsPerMinute
                  \/ zones[z].totalWateringToday >= sysConfig.maxDailyWatering) =>
                Stopped(ev'[z], {"maxDuration", "dailyLimit"})]_vars

\* what the sketch records of a failed DHT.read(): nothing; the status is a
\* local of readSensors that is compared with AM2315C_OK and dropped
SensorReadError == FALSE

(* C28: a readSensors whose temperature read fails leaves temp, the last   *)
(* value read, as it was and raises the SensorReadError flag.              *)
C28_FailedReadKeepsValueAndFlags ==
  [][ReadSensorsAs(Raws, "AM2315C_ERROR") => temp' = temp /\ SensorReadError']_vars

\* a handler has made some but not all of the assignments of a write: the
\* record it writes is neither the one before nor the one after the write
Torn ==
  \/ pc.op = "writeZone" /\ zones[pc.zone] \notin {pc.before, pc.after}
  \/ pc.op = "writeSystem" /\ sysConfig \notin {pc.before, pc.after}

(* C29: no tick runs between two assignments of a configuration write:     *)
(* every tick finds each record, the system record and every zone record,  *)
(* either as it was before the write or as it is after it.                 *)
C29_TickNeverSeesTornRecord ==
  [][UpdateIrrigation => ~Torn]_vars

\* a tick after a completed write has started a zone on the new thresholds,
\* which the thresholds before the write would have left idle
C29_Witness ==
  \E z \in ZoneIds :
    /\ pc = AtLoop
    /\ <<zones[z].moistureLow, zones[z].moistureHigh>> = <<75, 90>>
    /\ soilMoisture[z] > 40
    /\ Started(ev[z], {"moisture"})
    /\ relaystatus[z]

(* C26: the outcome of a tick for a zone in time mode does not depend on   *)
(* the zone's moisture reading: of two states that differ only in the      *)
(* readings of the moisture sensors (the state before and the state after  *)
(* a readSensors that leaves the temperature as it was) a tick leaves the  *)
(* zone in the same actuator state.                                        *)
C26_TimeModeIgnoresMoisture ==
  [][(ReadSensors(Raws) /\ temp' = temp) =>
       \A z \in ZoneIds :
         (Active(z) /\ zones[z].enabled /\ zones[z].mode = MODE_TIME_ONLY) =>
           ZoneTickLean(z)'.on = ZoneTickLean(z).on]_vars

(* C25: the outcome of a tick does not depend on the temperature display   *)
(* unit: of two states with the same sensor readings and the same          *)
(* configuration but for the display unit (the state before and the state  *)
(* after a write of the unit) a tick leaves every zone in the same         *)
(* actuator state.                                                         *)
C25_DisplayUnitIsDisplayOnly ==
  [][(\E v \in BOOLEAN : SetTempUnit(v)) =>
       \A z \in ZoneIds : Active(z) => ZoneTickV22(z)'.on = ZoneTickV22(z).on]_vars

\* C31: in the persisted layout the SystemConfig record and the zone records
\* occupy pairwise disjoint ranges: no byte in the range of a record ever holds
\* a byte written for another record
C31_RecordsDisjoint ==
  \A r \in Records : \A a \in Addresses \cap RangeOf(r) : eeprom[a].rec \in {r, ErasedByte.rec}

\* C32: a calibration capture (set dry, set wet) persists the captured value:
\* a power loss followed by a load returns the calibration values the zones
\* had, also when no explicit save was issued after the capture
C32_CapturePersisted ==
  [][(\E raw \in CaptureRaws : Boot22(raw))
       => \A z \in StoreIds : /\ zones'[z].dryCal = zones[z].dryCal
                              /\ zones'[z].wetCal = zones[z].wetCal]_vars

\* C33: after a power cycle (boot and load) every zone is IDLE with no
\* watering start time and a daily total of 0; of the runtime state of a zone
\* only lastWatered can carry over
C33_BootResetsRuntime ==
  [][Boot40 => \A z \in GigaZones :
                 z < sysConfig'.zones => /\ ~relaystatus'[z]
                                         /\ zones'[z].wateringStart = 0
                                         /\ zones'[z].totalWateringToday = 0]_vars

\* C34: for every configuration with low < high the effective thresholds keep
\* their order under the temperature adjustment: effectiveLow < effectiveHigh
\* at every temperature, whatever adjLow and adjHigh are
C34_AdjustmentKeepsOrder ==
  \A z \in ZoneIds :
    Active(z) /\ zones[z].moistureLow < zones[z].moistureHigh
      => effectiveLow(zones[z]) < effectiveHigh(zones[z])

\* the actuator calls of e that changed the state of the zone
Changes(e) ==
  {i \in DOMAIN e : (e[i].op = "start" /\ ~e[i].was) \/ (e[i].op = "stop" /\ e[i].was)}

\* C35: within a single tick a zone's actuator changes state at most once: no
\* tick both stops and starts the same zone
C35_OneChangePerTick ==
  [][UpdateIrrigation => \A z \in ZoneIds : Cardinality(Changes(ev'[z])) <= 1]_vars

\* C36: in every reachable state no actuator with index >= zoneCount is
\* energized, also after the number of zones was lowered by a configuration
\* write while zones were watering
C36_NoRelayBeyondZoneCount ==
  \A z \in ZoneIds : z >= sysConfig.zones => ~relaystatus[z]

\* C37: until the temperature sensor has returned its first successful read
\* the engine keeps the initial temperature 0, so with freeze protection
\* enabled and a freeze threshold above 0 no tick starts any zone and every
\* tick stops the zones that are watering
C37_ColdStartFrozen ==
  [][/\ temp' = 0
     /\ (UpdateIrrigation /\ sysConfig.freezeProtect /\ sysConfig.freezeTemp > 0) =>
          \A z \in ZoneIds : /\ ~Started(ev'[z], AnyCause)
                             /\ relaystatus[z] => /\ Stopped(ev'[z], {"freeze"})
                                                  /\ ~relaystatus'[z]]_vars

\* a tick before the first successful read has stopped a zone that was
\* toggled on by hand
C37_Witness ==
  /\ temp = 0
  /\ sysConfig.freezeProtect /\ sysConfig.freezeTemp > 0
  /\ ticks = 1
  /\ \E z \in ZoneIds : /\ Stopped(ev[z], {"freeze"})
                        /\ ~relaystatus[z]
                        /\ zones[z].lastWatered > 0

\* the calls of stopWatering among the calls e, on a zone that was watering
\* and on a zone that was already stopped
StopsOfWatering(e) == {i \in DOMAIN e : e[i].op = "stop" /\ e[i].was}
StopsOfStopped(e) == {i \in DOMAIN e : e[i].op = "stop" /\ ~e[i].was}

\* C38: stopWatering on a watering zone adds the whole minutes elapsed since
\* its start, rounded down, to the daily total, sets lastWatered to now and
\* clears the start time; stopWatering on a zone that is already stopped
\* changes none of the three fields, so the daily total never decreases
C38_StopAccounting ==
  [][\A z \in ZoneIds :
       LET e == ev'[z]
       IN /\ zones'[z].totalWateringToday >= zones[z].totalWateringToday
          /\ (relaystatus[z] /\ 1 \in StopsOfWatering(e)) =>
               /\ zones'[z].totalWateringToday =
                    zones[z].totalWateringToday + (ElapsedMs(z) \div MsPerMinute)
               /\ zones'[z].lastWatered = Now
               /\ ~Started(e, AnyCause) => zones'[z].wateringStart = 0
          /\ StopsOfWatering(e) = {} =>
               /\ zones'[z].totalWateringToday = zones[z].totalWateringToday
               /\ zones'[z].lastWatered = zones[z].lastWatered
               /\ ~Started(e, AnyCause) => zones'[z].wateringStart = zones[z].wateringStart]_vars

\* a tick has stopped a zone that had watered for a minute and has then
\* called stopWatering again on the stopped zone
C38_Witness ==
  \E z \in ZoneIds :
    /\ StopsOfWatering(ev[z]) = {1}
    /\ StopsOfStopped(ev[z]) # {}
    /\ ~relaystatus[z]
    /\ zones[z].totalWateringToday > 0
    /\ zones[z].wateringStart = 0

\* zone z is run by the schedule: time mode, or hybrid mode with an enabled
\* schedule
Scheduled(z) ==
  \/ zones[z].mode = MODE_TIME_ONLY
  \/ zones[z].mode = MODE_HYBRID /\ zones[z].schedule.enabled

\* C39: while the clock has never been set the schedule evaluator returns
\* false for every zone, so no zone in time mode and no zone in hybrid mode
\* with an enabled schedule is started by its strategy
C39_UnsetClockStartsNothing ==
  [][(UpdateIrrigation /\ ~timeSet) =>
       \A z \in ZoneIds :
         /\ ~isInScheduledWindow(zones[z])
         /\ Scheduled(z) => ~Started(ev'[z], Strategies)]_vars

\* a tick with the clock unset has left idle a dry zone in hybrid mode whose
\* enabled daily window covers the time that the unset clock shows
C39_Witness ==
  /\ ~timeSet
  /\ ticks = 1
  /\ \E z \in ZoneIds :
       /\ Active(z) /\ zones[z].enabled
       /\ zones[z].mode = MODE_HYBRID
       /\ zones[z].schedule.enabled
       /\ WindowOpen(z)
       /\ soilMoisture[z] <= SpecLow(z)
       /\ ev[z] = <<>>
       /\ ~relaystatus[z]

\* the menu after k presses of MENU, in V2.2 and in V3.0
RECURSIVE MenuPresses(_, _)
MenuPresses(m, k) == IF k = 0 THEN m ELSE MenuPresses(menuButton(m), k - 1)

RECURSIVE MenuBacks(_, _)
MenuBacks(m, k) == IF k = 0 THEN m ELSE MenuBacks(menuBack(m), k - 1)

\* the conditions of loop() under which updateIrrigation() is called
OnRunScreen(m) == m.menuState = "MENU_RUN"
OnStatusScreen(m) == m.currentMenu = "MENU_STATUS" /\ ~m.inEdit

\* C40: in the button-menu controllers at most four consecutive presses of
\* MENU reach the run/status screen from every menu state, editing or not, so
\* no sequence of button presses leaves the menu where that screen cannot be
\* reached
C40_MenuReachesRun ==
  /\ \E k \in 0 .. 4 : OnRunScreen(MenuPresses(currentMenu, k))
  /\ \A menu \in MenuStates, edit \in BOOLEAN :
       \E k \in 0 .. 4 : OnStatusScreen(MenuBacks([currentMenu |-> menu, inEdit |-> edit], k))

\* an edit of a zone threshold is open: the run screen is three presses away
\* and no nearer
C40_Witness ==
  /\ currentMenu.editing
  /\ currentMenu.menuState = "MENU_ZONE_LOW"
  /\ OnRunScreen(MenuPresses(currentMenu, 3))
  /\ \A k \in 0 .. 2 : ~OnRunScreen(MenuPresses(currentMenu, k))

====
